---- MODULE Spec2Model ----
(***************************************************************************)
(* Pomodoro task manager: the ingest merge step and review session of      *)
(* main.py (ingest_logic), the parser's batch construction                 *)
(* (gemini_client.process_brain_dump), the entity store (storage.py) and   *)
(* the session index with its reference resolution (list_tasks, start,     *)
(* parse_task_refs).                                                       *)
(*                                                                         *)
(* Python strings that the code inspects character by character (task      *)
(* identifiers, reference tokens, typed numbers) are sequences of          *)
(* one-character strings; strings that are only compared for equality      *)
(* (project names, project identifiers, titles) are TLA+ strings.          *)
(***************************************************************************)
EXTENDS Integers, Sequences, FiniteSets, TLC

\* ------------------------------------------------------------------ bounds
MaxBatchProjects == 2
MaxBatchTasks == 2
MaxReviewSteps == 2
\* commands of one session; complete and edit are among the first
\* MaxRefCommands of them
MaxCommands == 3
MaxRefCommands == 2

\* ------------------------------------------------------------ data model
\* Python's None (project_id, completed_at, deadline).
NoneVal == "None"

\* Task.deadline is read and written all over main.py but models.Task
\* declares no such field; its default is the one the data model gives it
\* (optional, absent means no deadline).
NoDeadline == NoneVal

\* models.Project: id and name (description and created_at are never read
\* by the modelled operations).
Project(id, name) == [id |-> id, name |-> name]

\* models.Task with the dataclass defaults.
Task(id, title, est, pid) ==
    [id |-> id, title |-> title, estimated_tomatoes |-> est,
     completed_tomatoes |-> 0, status |-> "todo", project_id |-> pid,
     deadline |-> NoDeadline, completed_at |-> NoneVal]

\* uuid4 identifiers of the projects of one batch, in creation order.
BatchProjectIds == <<"bp1", "bp2", "bp3", "bp4">>

\* uuid4 identifiers of the draft tasks of one batch, in creation order.
DraftTaskIds == << <<"d", "1">>, <<"d", "2">>, <<"d", "3">>, <<"d", "4">> >>

\* f"p_{datetime.now().timestamp()}": the n-th project created in a review.
CreatedProjectIds == <<"p_1", "p_2", "p_3", "p_4">>

\* ------------------------------------------------------------ dictionaries
\* A Python dict is a function whose DOMAIN is its key set.
EmptyDict == <<>>

DictGet(d, k, default) == IF k \in DOMAIN d THEN d[k] ELSE default

DictSet(d, k, v) == [x \in (DOMAIN d) \cup {k} |-> IF x = k THEN v ELSE d[x]]

Range(s) == {s[i] : i \in DOMAIN s}

\* {p.name: p for p in projects}: a later project overwrites an earlier one
\* of the same name.
RECURSIVE NameDict(_, _)
NameDict(projects, d) ==
    IF projects = <<>> THEN d
    ELSE NameDict(Tail(projects), DictSet(d, Head(projects).name, Head(projects)))

\* {p.id: p.name for p in projects}
RECURSIVE ProjectMap(_, _)
ProjectMap(projects, d) ==
    IF projects = <<>> THEN d
    ELSE ProjectMap(Tail(projects), DictSet(d, Head(projects).id, Head(projects).name))

\* next((p for p in projects if p.name == name), None)
RECURSIVE FindByName(_, _)
FindByName(projects, name) ==
    IF projects = <<>> THEN [found |-> FALSE, p |-> Project(NoneVal, name)]
    ELSE IF Head(projects).name = name THEN [found |-> TRUE, p |-> Head(projects)]
         ELSE FindByName(Tail(projects), name)

\* ------------------------------------------------------- character strings
Digits == {"0", "1", "2", "3", "4", "5", "6", "7", "8", "9"}

DigitVal(c) ==
    CASE c = "0" -> 0 [] c = "1" -> 1 [] c = "2" -> 2 [] c = "3" -> 3
      [] c = "4" -> 4 [] c = "5" -> 5 [] c = "6" -> 6 [] c = "7" -> 7
      [] c = "8" -> 8 [] c = "9" -> 9

DigitChar(n) == <<"0", "1", "2", "3", "4", "5", "6", "7", "8", "9">>[n + 1]

\* str.isdigit(): non-empty and every character a digit.
IsDigit(s) == s # <<>> /\ \A i \in DOMAIN s : s[i] \in Digits

\* The value of a string of decimal digits.
RECURSIVE DecVal(_)
DecVal(s) ==
    IF s = <<>> THEN 0
    ELSE 10 * DecVal(SubSeq(s, 1, Len(s) - 1)) + DigitVal(s[Len(s)])

\* int(s): an optional sign and decimal digits, ValueError otherwise
\* (ok = FALSE).
PyInt(s) ==
    LET signed == s # <<>> /\ Head(s) \in {"-", "+"}
        body == IF signed THEN Tail(s) ELSE s
    IN  IF IsDigit(body)
        THEN [ok |-> TRUE,
              val |-> IF signed /\ Head(s) = "-" THEN 0 - DecVal(body) ELSE DecVal(body)]
        ELSE [ok |-> FALSE, val |-> 0]

\* str(n) of an integer.
RECURSIVE StrNat(_)
StrNat(n) ==
    IF n < 10 THEN <<DigitChar(n)>>
    ELSE Append(StrNat(n \div 10), DigitChar(n % 10))

Str(n) == IF n < 0 THEN <<"-">> \o StrNat(0 - n) ELSE StrNat(n)

\* s.startswith(prefix)
StartsWith(s, prefix) ==
    Len(prefix) <= Len(s) /\ SubSeq(s, 1, Len(prefix)) = prefix

\* s.split(sep) for a one-character separator: the pieces between the
\* separators, empty pieces kept.
RECURSIVE SplitOn(_, _, _, _)
SplitOn(s, sep, cur, acc) ==
    IF s = <<>> THEN Append(acc, cur)
    ELSE IF Head(s) = sep THEN SplitOn(Tail(s), sep, <<>>, Append(acc, cur))
         ELSE SplitOn(Tail(s), sep, Append(cur, Head(s)), acc)

Split(s, sep) == SplitOn(s, sep, <<>>, <<>>)

\* s.split(): the pieces between runs of blanks, empty pieces dropped.
SplitWs(s) == SelectSeq(Split(s, " "), LAMBDA piece : piece # <<>>)

\* Prompt.ask(..., default=d): an empty entry returns the default.
PromptAsk(entry, default) == IF entry = "" THEN default ELSE entry

\* The same for an entry the code reads character by character.
PromptAskChars(entry, default) == IF entry = <<>> THEN default ELSE entry

\* new_deadline.strip() on the entries of DeadlineEntries.
StripDeadline(s) == IF s = " " THEN "" ELSE s

\* The characters of the compared strings in code point order.
CharOrder ==
    <<" ", "-", "0", "1", "2", "3", "4", "5", "6", "7", "8", "9",
      "D", "H", "N", "P", "U", "W",
      "a", "b", "c", "d", "e", "f", "h", "j", "k", "m", "n", "o", "r", "s", "t", "w", "x",
      "z">>

Ord(c) == CHOOSE i \in DOMAIN CharOrder : CharOrder[i] = c

\* The characters of the project names and deadlines of the listed stores.
Chars(s) ==
    CASE s = "Work" -> <<"W", "o", "r", "k">>
      [] s = "work" -> <<"w", "o", "r", "k">>
      [] s = "Work " -> <<"W", "o", "r", "k", " ">>
      [] s = "Docs" -> <<"D", "o", "c", "s">>
      [] s = "Home" -> <<"H", "o", "m", "e">>
      [] s = "New" -> <<"N", "e", "w">>
      [] s = "Unknown" -> <<"U", "n", "k", "n", "o", "w", "n">>
      [] s = "No Project" -> <<"N", "o", " ", "P", "r", "o", "j", "e", "c", "t">>
      [] s = "9999-12-31" -> <<"9", "9", "9", "9", "-", "1", "2", "-", "3", "1">>
      [] s = "2026-01-01" -> <<"2", "0", "2", "6", "-", "0", "1", "-", "0", "1">>
      [] s = "2026-02-01" -> <<"2", "0", "2", "6", "-", "0", "2", "-", "0", "1">>

\* a < b on str: the first differing character decides, a proper prefix is
\* smaller.
RECURSIVE StrLess(_, _)
StrLess(a, b) ==
    IF b = <<>> THEN FALSE
    ELSE IF a = <<>> THEN TRUE
    ELSE IF Head(a) = Head(b) THEN StrLess(Tail(a), Tail(b))
    ELSE Ord(Head(a)) < Ord(Head(b))

\* str.lower()
LowerChar(c) ==
    CASE c = "D" -> "d" [] c = "H" -> "h" [] c = "N" -> "n" [] c = "P" -> "p"
      [] c = "W" -> "w" [] OTHER -> c

Lower(s) == [i \in DOMAIN s |-> LowerChar(s[i])]

\* sub in s
Contains(sub, s) ==
    \E i \in 1..(Len(s) - Len(sub) + 1) : SubSeq(s, i, i + Len(sub) - 1) = sub

\* s.strip()
RECURSIVE Strip(_)
Strip(s) ==
    IF s = <<>> THEN s
    ELSE IF Head(s) = " " THEN Strip(Tail(s))
    ELSE IF s[Len(s)] = " " THEN Strip(SubSeq(s, 1, Len(s) - 1))
    ELSE s

\* ------------------------------------------------------------------ state
VARIABLES
    store,              \* data/tasks.json: [tasks, projects]
    pc,                 \* ingest_logic: idle, Reviewing, Saved, Discarded, Failed
    existing_tasks,     \* ingest_logic locals
    existing_projects,
    new_projects,       \* the batch's projects as the parser returned them
    parsed_tasks,       \* the batch's tasks as the parser returned them
    new_tasks,          \* the draft tasks (mutated in place)
    final_projects,     \* the working project set
    out,                \* the last message printed by ingest_logic
    steps,              \* review actions taken in this session
    writes,             \* calls of storage.save_data
    store0,             \* the store as it was when the ingest loaded it
    typed,              \* the last entries at the Action and Merge prompts
    TASK_INDEX_MAP,     \* main.py's global: str(index) -> task id
    displayed,          \* the task ids of the last listing, in display order
    target,             \* the last command that took task references
    archive,            \* data/archive.json: its tasks
    tasks_to_archive,   \* archive: the tasks taken out of tasks.json and not yet
                        \* appended to archive.json
    github,             \* check_github: its position, the issues fetched, the
                        \* close_issue calls made
    file,               \* storage: the bytes of data/tasks.json, by kind
    saving,             \* storage._save_json: its position in the write
    loaded              \* storage.load_data: what the last call returned

vars == <<store, pc, existing_tasks, existing_projects, new_projects,
          parsed_tasks, new_tasks, final_projects, out, steps, writes,
          store0, typed, TASK_INDEX_MAP, displayed, target, archive,
          tasks_to_archive, github, file, saving, loaded>>

\* The state of the review session, untouched by the other commands.
ingestVars == <<pc, existing_tasks, existing_projects, new_projects,
                parsed_tasks, new_tasks, final_projects, store0, typed>>

\* The session index and what was resolved through it.
sessionVars == <<TASK_INDEX_MAP, displayed, target>>

\* The archive file and the archive command's position between its two
\* writes.
archiveVars == <<archive, tasks_to_archive>>

\* check_github's own state, untouched by the other commands.
githubVars == <<github>>

\* The data file as storage.py reads and writes it, byte level.
storageVars == <<file, saving, loaded>>

\* check_github has not run.
NoGithub == [state |-> "none", issues |-> <<>>, closed |-> <<>>, failed |-> <<>>]

\* Empty collections.
NoData == [tasks |-> <<>>, projects |-> <<>>]

\* No _save_json is under way; old and new are the collections of the file
\* before the last save_data and the collections it was given.
NotSaving == [phase |-> "idle", old |-> NoData, new |-> NoData]

\* load_data has not been called; phase, old and new are those of the save
\* that was under way when it was.
NotLoaded == [phase |-> "none", raised |-> FALSE, data |-> NoData,
              old |-> NoData, new |-> NoData]

\* A data file that does not exist.
NoFile == [kind |-> "missing", tasks |-> <<>>, projects |-> <<>>]

\* No command has taken a task reference yet.
NoTarget == [cmd |-> "none", ref |-> <<>>, raised |-> FALSE, ids |-> <<>>,
             warnings |-> <<>>, cleared |-> 0, timer |-> "none", is_done |-> "none", days |-> 0,
             confirm |-> "none"]

\* TASK_INDEX_MAP = {} when the module is loaded.
SessionInit ==
    /\ TASK_INDEX_MAP = <<>>
    /\ displayed = <<>>
    /\ target = NoTarget
    /\ github = NoGithub
    /\ file = NoFile
    /\ saving = NotSaving
    /\ loaded = NotLoaded

\* Nothing entered at the Merge prompts.
NoEntry == <<"-">>

\* p_list, project and confirm are filled in by the branches that show the
\* project list or ask for a project.
Typed(choice, src_e, dest_e) ==
    [choice |-> choice, src |-> src_e, dest |-> dest_e, p_list |-> <<>>,
     project |-> "", confirm |-> FALSE]

\* ------------------------------------------------------------------ parser
\* projects_map[project.name] = project.id, in batch order.
RECURSIVE ProjectsMap(_, _)
ProjectsMap(projects, d) ==
    IF projects = <<>> THEN d
    ELSE ProjectsMap(Tail(projects), DictSet(d, Head(projects).name, Head(projects).id))

\* The Project and Task objects process_brain_dump builds from the parsed
\* JSON: data.projects is a sequence of names, data.tasks a sequence of
\* [title, estimated_tomatoes, project_name].
BatchProjects(data) ==
    [i \in DOMAIN data.projects |-> Project(BatchProjectIds[i], data.projects[i])]

BatchTasks(data) ==
    LET projects_map == ProjectsMap(BatchProjects(data), EmptyDict)
    IN  [j \in DOMAIN data.tasks |->
            Task(DraftTaskIds[j], data.tasks[j].title,
                 data.tasks[j].estimated_tomatoes,
                 DictGet(projects_map, data.tasks[j].project_name, NoneVal))]

\* -------------------------------------------------------------- merge step
\* Mutant of MergeLoop: names are compared without case and outer blanks.
RECURSIVE MergeLoopAnyCase(_, _, _, _)
MergeLoopAnyCase(projs, names, final, idmap) ==
    IF projs = <<>> THEN [final_projects |-> final, project_id_map |-> idmap]
    ELSE LET p == Head(projs)
             Same(n) == Lower(Strip(Chars(n))) = Lower(Strip(Chars(p.name)))
         IN
         IF \E n \in DOMAIN names : Same(n)
         THEN MergeLoopAnyCase(Tail(projs), names, final,
                               DictSet(idmap, p.id,
                                       names[CHOOSE n \in DOMAIN names : Same(n)].id))
         ELSE MergeLoopAnyCase(Tail(projs), DictSet(names, p.name, p),
                               Append(final, p), DictSet(idmap, p.id, p.id))

\* Mutant of MergeLoop: a new project is not entered in the name lookup.
RECURSIVE MergeLoopNoRegister(_, _, _, _)
MergeLoopNoRegister(projs, names, final, idmap) ==
    IF projs = <<>> THEN [final_projects |-> final, project_id_map |-> idmap]
    ELSE LET p == Head(projs) IN
         IF p.name \in DOMAIN names
         THEN MergeLoopNoRegister(Tail(projs), names, final,
                                  DictSet(idmap, p.id, names[p.name].id))
         ELSE MergeLoopNoRegister(Tail(projs), names,
                                  Append(final, p), DictSet(idmap, p.id, p.id))

\* Mutant of MergeLoop: a batch project named like a known one keeps its own
\* id in the translation table.
RECURSIVE MergeLoopIdentity(_, _, _, _)
MergeLoopIdentity(projs, names, final, idmap) ==
    IF projs = <<>> THEN [final_projects |-> final, project_id_map |-> idmap]
    ELSE LET p == Head(projs) IN
         IF p.name \in DOMAIN names
         THEN MergeLoopIdentity(Tail(projs), names, final,
                                DictSet(idmap, p.id, p.id))
         ELSE MergeLoopIdentity(Tail(projs), DictSet(names, p.name, p),
                                Append(final, p), DictSet(idmap, p.id, p.id))

\* for p in new_projects: ... (the initial smart merge of projects)
RECURSIVE MergeLoop(_, _, _, _)
MergeLoop(projs, names, final, idmap) ==
    IF projs = <<>> THEN [final_projects |-> final, project_id_map |-> idmap]
    ELSE LET p == Head(projs) IN
         IF p.name \in DOMAIN names
         THEN MergeLoop(Tail(projs), names, final,
                        DictSet(idmap, p.id, names[p.name].id))
         ELSE MergeLoop(Tail(projs), DictSet(names, p.name, p),
                        Append(final, p), DictSet(idmap, p.id, p.id))

\* Mutant of MergeProjects: the name lookup is not built from the store.
MergeProjectsNoLookup(existing, batch) ==
    MergeLoop(batch, EmptyDict, existing, EmptyDict)

MergeProjects(existing, batch) ==
    MergeLoop(batch, NameDict(existing, EmptyDict), existing, EmptyDict)

\* Mutant of RemapTasks: the draft tasks keep their batch project ids.
RemapTasksKeep(tasks, idmap) == tasks

\* for t in new_tasks: if t.project_id in project_id_map: ...
RemapTasks(tasks, idmap) ==
    [j \in DOMAIN tasks |->
        IF tasks[j].project_id \in DOMAIN idmap
        THEN [tasks[j] EXCEPT !.project_id = idmap[tasks[j].project_id]]
        ELSE tasks[j]]

\* ------------------------------------------------------------------ inputs
ExistingNames == {"Work", "Home"}
BatchNames == {"Work", "work", "Work "}

SeqsUpTo(S, n) == UNION {[1..k -> S] : k \in 0..n}

ParsedTaskData ==
    [title : {"t"}, estimated_tomatoes : {1},
     project_name : BatchNames \cup {NoneVal}]

\* What json.loads may hand to process_brain_dump.
ParsedBatches ==
    [projects : SeqsUpTo(BatchNames, MaxBatchProjects),
     tasks : SeqsUpTo(ParsedTaskData, MaxBatchTasks)]

ExistingTaskId == <<"e", "1">>

\* The stores an ingest may start from: project names pairwise distinct.
InitProjects ==
    { <<>>, <<Project("p1", "Work")>>,
      <<Project("p1", "Work"), Project("p2", "Home")>> }

InitStores ==
    UNION { { [tasks |-> <<>>, projects |-> ps] }
            \cup { [tasks |-> <<Task(ExistingTaskId, "old", 1, pid)>>, projects |-> ps]
                   : pid \in {ps[i].id : i \in DOMAIN ps} \cup {NoneVal} }
          : ps \in InitProjects }

\* ----------------------------------------------------------------- storage
\* storage.save_data: the file holds exactly the given lists.
SaveData(tasks, projects) == [tasks |-> tasks, projects |-> projects]

\* ------------------------------------------------------------------ ingest
Init ==
    /\ store \in InitStores
    /\ pc = "idle"
    /\ existing_tasks = <<>>
    /\ existing_projects = <<>>
    /\ new_projects = <<>>
    /\ parsed_tasks = <<>>
    /\ new_tasks = <<>>
    /\ final_projects = <<>>
    /\ out = ""
    /\ steps = 0
    /\ writes = 0
    /\ store0 = store
    /\ typed = Typed(<<>>, NoEntry, NoEntry)
    /\ SessionInit
    /\ archive = <<>>
    /\ tasks_to_archive = <<>>

\* ingest_logic up to the review loop: parse, load, merge.
Ingest(data) ==
    /\ UNCHANGED storageVars
    /\ UNCHANGED githubVars
    /\ UNCHANGED sessionVars
    /\ UNCHANGED archiveVars
    /\ pc = "idle"
    /\ LET merged == MergeProjects(store.projects, BatchProjects(data))
       IN  /\ existing_tasks' = store.tasks
           /\ existing_projects' = store.projects
           /\ new_projects' = BatchProjects(data)
           /\ parsed_tasks' = BatchTasks(data)
           /\ final_projects' = merged.final_projects
           /\ new_tasks' = RemapTasks(BatchTasks(data), merged.project_id_map)
    /\ pc' = "Reviewing"
    /\ out' = "Review Ingested Tasks"
    /\ store0' = store
    /\ UNCHANGED <<store, steps, writes, typed>>

\* What may fail before the review loop: the parser (no API key, no
\* network, a reply that is no JSON) and the initial load_data.
IngestFailures == {"parser", "load"}

IngestErrors == {"Error: parser", "Error: load"}

\* Mutant of IngestFail: the failure is swallowed and the review opens on an
\* empty batch.
IngestFailEntersReview(cause) ==
    /\ UNCHANGED storageVars
    /\ UNCHANGED githubVars
    /\ UNCHANGED sessionVars
    /\ UNCHANGED archiveVars
    /\ pc = "idle"
    /\ pc' = "Reviewing"
    /\ out' = IF cause = "parser" THEN "Error: parser" ELSE "Error: load"
    /\ UNCHANGED <<store, existing_tasks, existing_projects, new_projects,
                   parsed_tasks, new_tasks, final_projects, steps, writes,
                   store0, typed>>

\* process_brain_dump or load_data raises: except Exception prints the
\* error and ingest_logic returns False.
IngestFail(cause) ==
    /\ UNCHANGED storageVars
    /\ UNCHANGED githubVars
    /\ UNCHANGED sessionVars
    /\ UNCHANGED archiveVars
    /\ pc = "idle"
    /\ pc' = "Failed"
    /\ out' = IF cause = "parser" THEN "Error: parser" ELSE "Error: load"
    /\ UNCHANGED <<store, existing_tasks, existing_projects, new_projects,
                   parsed_tasks, new_tasks, final_projects, steps, writes,
                   store0, typed>>

\* What ingest_logic returned: True after a save; False after a discard and
\* after a failure.
IngestResult ==
    CASE pc = "Saved" -> "True"
      [] pc \in {"Discarded", "Failed"} -> "False"
      [] OTHER -> "running"

\* ----------------------------------------------------------- review loop
\* The branch of the review loop a typed choice (stripped, lower-cased)
\* selects.
Dispatch(choice) ==
    IF choice = <<"s">> THEN "save"
    ELSE IF choice = <<"d">> THEN "discard"
    ELSE IF StartsWith(choice, <<"e", " ">>) THEN "edit"
    ELSE IF choice = <<"m">> THEN "merge"
    ELSE "unknown"

\* idx = int(choice.split()[1]) - 1; ValueError and IndexError give ok = FALSE.
EditIndex(choice) ==
    LET toks == SplitWs(choice)
    IN  IF Len(toks) < 2 THEN [ok |-> FALSE, val |-> 0]
        ELSE [ok |-> PyInt(toks[2]).ok, val |-> PyInt(toks[2]).val - 1]

\* Mutant of ValidIndex: the lower bound is not checked.
ValidIndexNoLower(idx, n) == idx < n

\* 0 <= idx < len(new_tasks)
ValidIndex(idx, n) == 0 <= idx /\ idx < n

\* The position new_tasks[idx] denotes (a negative idx counts from the end).
PyIndex(idx, n) == IF idx < 0 THEN n + idx + 1 ELSE idx + 1

\* The id of the next project created in this review.
NextCreatedId(projects) ==
    CreatedProjectIds[
        Cardinality({i \in DOMAIN projects : projects[i].id \in Range(CreatedProjectIds)}) + 1]

\* Mutant of EditTask: an unknown project name is created without asking.
EditTaskNoConfirm(task, projects, title_e, tomatoes_e, deadline_e, project_e, confirm) ==
    LET project_map == ProjectMap(projects, EmptyDict)
        new_title == PromptAsk(title_e, task.title)
        new_tomatoes == PromptAskChars(tomatoes_e, Str(task.estimated_tomatoes))
        est == IF IsDigit(new_tomatoes) THEN PyInt(new_tomatoes).val
               ELSE task.estimated_tomatoes
        new_deadline == PromptAsk(deadline_e,
                            IF task.deadline = NoneVal THEN "" ELSE task.deadline)
        deadline == IF StripDeadline(new_deadline) # "" THEN new_deadline ELSE NoneVal
        current_p_name == DictGet(project_map, task.project_id, "Unknown")
        new_p_name == PromptAsk(project_e, current_p_name)
        found_p == FindByName(projects, new_p_name)
        edited == [task EXCEPT !.title = new_title, !.estimated_tomatoes = est,
                               !.deadline = deadline]
    IN  IF found_p.found
        THEN [task |-> [edited EXCEPT !.project_id = found_p.p.id],
              projects |-> projects]
        ELSE [task |-> [edited EXCEPT !.project_id = NextCreatedId(projects)],
              projects |-> Append(projects,
                                  Project(NextCreatedId(projects), new_p_name))]

\* The prompts of one Edit on one draft task: title, tomatoes, deadline,
\* project (found, created on confirmation, or left alone).
EditTask(task, projects, title_e, tomatoes_e, deadline_e, project_e, confirm) ==
    LET project_map == ProjectMap(projects, EmptyDict)
        new_title == PromptAsk(title_e, task.title)
        new_tomatoes == PromptAskChars(tomatoes_e, Str(task.estimated_tomatoes))
        est == IF IsDigit(new_tomatoes) THEN PyInt(new_tomatoes).val
               ELSE task.estimated_tomatoes
        new_deadline == PromptAsk(deadline_e,
                            IF task.deadline = NoneVal THEN "" ELSE task.deadline)
        deadline == IF StripDeadline(new_deadline) # "" THEN new_deadline ELSE NoneVal
        current_p_name == DictGet(project_map, task.project_id, "Unknown")
        new_p_name == PromptAsk(project_e, current_p_name)
        found_p == FindByName(projects, new_p_name)
        edited == [task EXCEPT !.title = new_title, !.estimated_tomatoes = est,
                               !.deadline = deadline]
    IN  IF found_p.found
        THEN [task |-> [edited EXCEPT !.project_id = found_p.p.id],
              projects |-> projects]
        ELSE IF confirm
        THEN [task |-> [edited EXCEPT !.project_id = NextCreatedId(projects)],
              projects |-> Append(projects,
                                  Project(NextCreatedId(projects), new_p_name))]
        ELSE [task |-> edited, projects |-> projects]

\* elif choice.startswith('e '): the whole branch.
ReviewEdit(tasks, projects, choice, title_e, tomatoes_e, deadline_e, project_e, confirm) ==
    LET ix == EditIndex(choice)
    IN  IF ~ix.ok
        THEN [new_tasks |-> tasks, final_projects |-> projects,
              out |-> "Invalid format. Use 'e <index>'"]
        ELSE IF ValidIndex(ix.val, Len(tasks))
        THEN IF PyIndex(ix.val, Len(tasks)) \notin DOMAIN tasks
             THEN \* IndexError, caught with ValueError
                  [new_tasks |-> tasks, final_projects |-> projects,
                   out |-> "Invalid format. Use 'e <index>'"]
             ELSE
             LET pos == PyIndex(ix.val, Len(tasks))
                 r == EditTask(tasks[pos], projects, title_e, tomatoes_e,
                               deadline_e, project_e, confirm)
             IN  [new_tasks |-> [tasks EXCEPT ![pos] = r.task],
                  final_projects |-> r.projects, out |-> "Editing"]
        ELSE [new_tasks |-> tasks, final_projects |-> projects,
              out |-> "Invalid index"]

\* {p.name for p in final_projects if any(t.project_id == p.id for t in new_tasks)}
ActiveNames(tasks, projects) ==
    {projects[i].name : i \in {k \in DOMAIN projects :
                                 \E j \in DOMAIN tasks : tasks[j].project_id = projects[k].id}}

\* list(a set): its elements in some order.
ListsOf(S) ==
    {f \in [1..Cardinality(S) -> S] : \A a, b \in 1..Cardinality(S) : f[a] = f[b] => a = b}

\* 0 <= src_idx < len(p_list) and 0 <= dest_idx < len(p_list) and src_idx != dest_idx
ValidSelection(src_idx, dest_idx, n) ==
    /\ 0 <= src_idx /\ src_idx < n
    /\ 0 <= dest_idx /\ dest_idx < n
    /\ src_idx # dest_idx

\* Mutant of ReviewMerge: the source project is removed from the working set.
ReviewMergeDropsSource(tasks, projects, p_list, src_e, dest_e) ==
    IF ~PyInt(src_e).ok \/ ~PyInt(dest_e).ok
    THEN [new_tasks |-> tasks, final_projects |-> projects, out |-> "Invalid input"]
    ELSE LET src_idx == PyInt(src_e).val - 1
             dest_idx == PyInt(dest_e).val - 1
         IN  IF ValidSelection(src_idx, dest_idx, Len(p_list))
             THEN LET src_p == FindByName(projects, p_list[PyIndex(src_idx, Len(p_list))]).p
                      dest_p == FindByName(projects, p_list[PyIndex(dest_idx, Len(p_list))]).p
                  IN  [new_tasks |->
                          [j \in DOMAIN tasks |->
                              IF tasks[j].project_id = src_p.id
                              THEN [tasks[j] EXCEPT !.project_id = dest_p.id]
                              ELSE tasks[j]],
                       final_projects |-> SelectSeq(projects, LAMBDA q : q.id # src_p.id),
                       out |-> "Moved"]
             ELSE [new_tasks |-> tasks, final_projects |-> projects,
                   out |-> "Invalid selection"]

\* elif choice == 'm': the whole branch, for the order p_list came out in.
ReviewMerge(tasks, projects, p_list, src_e, dest_e) ==
    IF ~PyInt(src_e).ok \/ ~PyInt(dest_e).ok
    THEN [new_tasks |-> tasks, final_projects |-> projects, out |-> "Invalid input"]
    ELSE LET src_idx == PyInt(src_e).val - 1
             dest_idx == PyInt(dest_e).val - 1
         IN  IF ValidSelection(src_idx, dest_idx, Len(p_list))
             THEN LET src_p == FindByName(projects, p_list[PyIndex(src_idx, Len(p_list))]).p
                      dest_p == FindByName(projects, p_list[PyIndex(dest_idx, Len(p_list))]).p
                  IN  [new_tasks |->
                          [j \in DOMAIN tasks |->
                              IF tasks[j].project_id = src_p.id
                              THEN [tasks[j] EXCEPT !.project_id = dest_p.id]
                              ELSE tasks[j]],
                       final_projects |-> projects, out |-> "Moved"]
             ELSE [new_tasks |-> tasks, final_projects |-> projects,
                   out |-> "Invalid selection"]

\* What the user may type at the Action prompt.
Choices ==
    { <<"s">>, <<"d">>, <<"m">>, <<"x">>, <<"e">>, <<"e", "1">>,
      <<"e", " ", "1">>, <<"e", " ", "2">>, <<"e", " ", "3">>, <<"e", " ", "0">>,
      <<"e", " ", "9">>, <<"e", " ", "x">>, <<"e", " ", "-", "1">> }

\* What the user may enter at the four prompts of an Edit and at the
\* confirmation ("" is the bare Enter key, which returns the default):
\* entries that leave the project alone (and change the title or the other
\* fields), entries that only name a project, and entries that change
\* everything.
EditEntries ==
    { e \in [title : {"", "X"}, tomatoes : {<<>>, <<"2">>, <<"0">>, <<"x">>},
             deadline : {"", " ", "2026-01-01"},
             project : {"", "Work", "Docs", "New"}, confirm : BOOLEAN] :
        \/ /\ e.project = "" /\ ~e.confirm
           /\ e.title = "" \/ (e.tomatoes = <<>> /\ e.deadline = "")
        \/ e.title = "" /\ e.tomatoes = <<>> /\ e.deadline = ""
        \/ e.title = "X" /\ e.tomatoes = <<"2">> /\ e.deadline = "2026-01-01" /\ e.confirm }

\* What the user may enter at "Merge FROM" and "Merge INTO".
MergeEntries ==
    { <<<<"1">>, <<"2">>>>, <<<<"2">>, <<"1">>>>, <<<<"1">>, <<"3">>>>,
      <<<<"3">>, <<"2">>>>, <<<<"1">>, <<"1">>>>, <<<<"0">>, <<"1">>>>,
      <<<<"1">>, <<"9">>>>, <<<<"x">>, <<"1">>>>, <<<<"1">>, <<"x">>>> }

\* Mutant of Save: only the draft tasks are written.
SaveDropsExisting(choice) ==
    /\ UNCHANGED storageVars
    /\ UNCHANGED githubVars
    /\ UNCHANGED sessionVars
    /\ UNCHANGED archiveVars
    /\ pc = "Reviewing"
    /\ Dispatch(choice) = "save"
    /\ store' = SaveData(new_tasks, final_projects)
    /\ writes' = writes + 1
    /\ pc' = "Saved"
    /\ out' = "Successfully added"
    /\ typed' = Typed(choice, NoEntry, NoEntry)
    /\ UNCHANGED <<existing_tasks, existing_projects, new_projects,
                   parsed_tasks, new_tasks, final_projects, steps, store0>>

\* choice == 's'
Save(choice) ==
    /\ UNCHANGED storageVars
    /\ UNCHANGED githubVars
    /\ UNCHANGED sessionVars
    /\ UNCHANGED archiveVars
    /\ pc = "Reviewing"
    /\ Dispatch(choice) = "save"
    /\ store' = SaveData(existing_tasks \o new_tasks, final_projects)
    /\ writes' = writes + 1
    /\ pc' = "Saved"
    /\ out' = "Successfully added"
    /\ typed' = Typed(choice, NoEntry, NoEntry)
    /\ UNCHANGED <<existing_tasks, existing_projects, new_projects,
                   parsed_tasks, new_tasks, final_projects, steps, store0>>

\* choice == 'd'
Discard(choice) ==
    /\ UNCHANGED storageVars
    /\ UNCHANGED githubVars
    /\ UNCHANGED sessionVars
    /\ UNCHANGED archiveVars
    /\ pc = "Reviewing"
    /\ Dispatch(choice) = "discard"
    /\ pc' = "Discarded"
    /\ out' = "Discarded."
    /\ typed' = Typed(choice, NoEntry, NoEntry)
    /\ UNCHANGED <<store, existing_tasks, existing_projects, new_projects,
                   parsed_tasks, new_tasks, final_projects, steps, writes, store0>>

\* typer.confirm("Create new project ...?") is reached: the project name
\* of the edit names no project of the working set.
ConfirmAsked(tasks, projects, choice, project_e) ==
    LET task == tasks[PyIndex(EditIndex(choice).val, Len(tasks))]
        current_p_name == DictGet(ProjectMap(projects, EmptyDict), task.project_id, "Unknown")
    IN  ~FindByName(projects, PromptAsk(project_e, current_p_name)).found

\* Mutant of Edit: the edited batch is saved right away.
EditPersists(choice, title_e, tomatoes_e, deadline_e, project_e, confirm) ==
    /\ UNCHANGED storageVars
    /\ UNCHANGED githubVars
    /\ UNCHANGED sessionVars
    /\ UNCHANGED archiveVars
    /\ pc = "Reviewing"
    /\ steps < MaxReviewSteps
    /\ Dispatch(choice) = "edit"
    /\ LET r == ReviewEdit(new_tasks, final_projects, choice, title_e,
                           tomatoes_e, deadline_e, project_e, confirm)
       IN  /\ r.out = "Editing"
           /\ new_tasks' = r.new_tasks
           /\ final_projects' = r.final_projects
           /\ out' = r.out
           /\ store' = SaveData(existing_tasks \o r.new_tasks, r.final_projects)
    /\ writes' = writes + 1
    /\ steps' = steps + 1
    /\ typed' = [Typed(choice, NoEntry, NoEntry) EXCEPT
                    !.project = project_e,
                    !.confirm = ConfirmAsked(new_tasks, final_projects, choice, project_e)
                                /\ confirm]
    /\ UNCHANGED <<pc, existing_tasks, existing_projects, new_projects,
                   parsed_tasks, store0>>

\* choice 'e <index>' with an index of a draft task.
Edit(choice, title_e, tomatoes_e, deadline_e, project_e, confirm) ==
    /\ UNCHANGED storageVars
    /\ UNCHANGED githubVars
    /\ UNCHANGED sessionVars
    /\ UNCHANGED archiveVars
    /\ pc = "Reviewing"
    /\ steps < MaxReviewSteps
    /\ Dispatch(choice) = "edit"
    /\ LET r == ReviewEdit(new_tasks, final_projects, choice, title_e,
                           tomatoes_e, deadline_e, project_e, confirm)
       IN  /\ r.out = "Editing"
           /\ new_tasks' = r.new_tasks
           /\ final_projects' = r.final_projects
           /\ out' = r.out
    /\ steps' = steps + 1
    /\ typed' = [Typed(choice, NoEntry, NoEntry) EXCEPT
                    !.project = project_e,
                    !.confirm = ConfirmAsked(new_tasks, final_projects, choice, project_e)
                                /\ confirm]
    /\ UNCHANGED <<store, pc, existing_tasks, existing_projects, new_projects,
                   parsed_tasks, writes, store0>>

\* Mutant of EditInvalid: the error reaches the outer except Exception.
EditInvalidAborts(choice) ==
    /\ UNCHANGED storageVars
    /\ UNCHANGED githubVars
    /\ UNCHANGED sessionVars
    /\ UNCHANGED archiveVars
    /\ pc = "Reviewing"
    /\ steps < MaxReviewSteps
    /\ Dispatch(choice) = "edit"
    /\ ReviewEdit(new_tasks, final_projects, choice, "", <<>>, "", "", FALSE).out # "Editing"
    /\ pc' = "Failed"
    /\ out' = "Error"
    /\ steps' = steps + 1
    /\ typed' = Typed(choice, NoEntry, NoEntry)
    /\ UNCHANGED <<store, existing_tasks, existing_projects, new_projects,
                   parsed_tasks, new_tasks, final_projects, writes, store0>>

\* choice 'e <index>' with anything else after the blank: no prompt follows.
EditInvalid(choice) ==
    /\ UNCHANGED storageVars
    /\ UNCHANGED githubVars
    /\ UNCHANGED sessionVars
    /\ UNCHANGED archiveVars
    /\ pc = "Reviewing"
    /\ steps < MaxReviewSteps
    /\ Dispatch(choice) = "edit"
    /\ LET r == ReviewEdit(new_tasks, final_projects, choice, "", <<>>, "", "", FALSE)
       IN  /\ r.out # "Editing"
           /\ new_tasks' = r.new_tasks
           /\ final_projects' = r.final_projects
           /\ out' = r.out
    /\ steps' = steps + 1
    /\ typed' = Typed(choice, NoEntry, NoEntry)
    /\ UNCHANGED <<store, pc, existing_tasks, existing_projects, new_projects,
                   parsed_tasks, writes, store0>>

\* choice == 'm' with a selection that moves tasks.
Merge(choice, p_list, src_e, dest_e) ==
    /\ UNCHANGED storageVars
    /\ UNCHANGED githubVars
    /\ UNCHANGED sessionVars
    /\ UNCHANGED archiveVars
    /\ pc = "Reviewing"
    /\ steps < MaxReviewSteps
    /\ Dispatch(choice) = "merge"
    /\ p_list \in ListsOf(ActiveNames(new_tasks, final_projects))
    /\ LET r == ReviewMerge(new_tasks, final_projects, p_list, src_e, dest_e)
       IN  /\ r.out = "Moved"
           /\ new_tasks' = r.new_tasks
           /\ final_projects' = r.final_projects
           /\ out' = r.out
    /\ steps' = steps + 1
    /\ typed' = [Typed(choice, src_e, dest_e) EXCEPT !.p_list = p_list]
    /\ UNCHANGED <<store, pc, existing_tasks, existing_projects, new_projects,
                   parsed_tasks, writes, store0>>

\* choice == 'm' with a selection that is reported.
MergeInvalid(choice, p_list, src_e, dest_e) ==
    /\ UNCHANGED storageVars
    /\ UNCHANGED githubVars
    /\ UNCHANGED sessionVars
    /\ UNCHANGED archiveVars
    /\ pc = "Reviewing"
    /\ steps < MaxReviewSteps
    /\ Dispatch(choice) = "merge"
    /\ p_list \in ListsOf(ActiveNames(new_tasks, final_projects))
    /\ LET r == ReviewMerge(new_tasks, final_projects, p_list, src_e, dest_e)
       IN  /\ r.out # "Moved"
           /\ new_tasks' = r.new_tasks
           /\ final_projects' = r.final_projects
           /\ out' = r.out
    /\ steps' = steps + 1
    /\ typed' = [Typed(choice, src_e, dest_e) EXCEPT !.p_list = p_list]
    /\ UNCHANGED <<store, pc, existing_tasks, existing_projects, new_projects,
                   parsed_tasks, writes, store0>>

\* else: Unknown command
Unknown(choice) ==
    /\ UNCHANGED storageVars
    /\ UNCHANGED githubVars
    /\ UNCHANGED sessionVars
    /\ UNCHANGED archiveVars
    /\ pc = "Reviewing"
    /\ steps < MaxReviewSteps
    /\ Dispatch(choice) = "unknown"
    /\ out' = "Unknown command"
    /\ steps' = steps + 1
    /\ typed' = Typed(choice, NoEntry, NoEntry)
    /\ UNCHANGED <<store, pc, existing_tasks, existing_projects, new_projects,
                   parsed_tasks, new_tasks, final_projects, writes, store0>>

NextMerge ==
    \/ \E data \in ParsedBatches : Ingest(data)
    \/ \E cause \in IngestFailures : IngestFail(cause)
    \/ \E choice \in Choices : Save(choice)
    \/ \E choice \in Choices : Discard(choice)

SpecMerge == Init /\ [][NextMerge]_vars

\* The batches and stores the review loop is explored from.
ReviewBatches ==
    { [projects |-> <<"Work", "Docs">>,
       tasks |-> <<[title |-> "t", estimated_tomatoes |-> 1, project_name |-> "Work"],
                   [title |-> "t", estimated_tomatoes |-> 1, project_name |-> "Docs"]>>],
      [projects |-> <<"Docs", "Docs">>,
       tasks |-> <<[title |-> "t", estimated_tomatoes |-> 1, project_name |-> "Docs"],
                   [title |-> "t", estimated_tomatoes |-> 1, project_name |-> NoneVal]>>],
      [projects |-> <<"Work">>,
       tasks |-> <<[title |-> "t", estimated_tomatoes |-> 1, project_name |-> "Work"],
                   [title |-> "t", estimated_tomatoes |-> 1, project_name |-> "Work"]>>],
      [projects |-> <<"Docs">>,
       tasks |-> <<[title |-> "t", estimated_tomatoes |-> 1, project_name |-> "Docs"]>>] }

ReviewStores ==
    { [tasks |-> <<>>, projects |-> <<>>],
      [tasks |-> <<Task(ExistingTaskId, "old", 1, NoneVal)>>,
       projects |-> <<Project("p1", "Work")>>],
      [tasks |-> <<Task(ExistingTaskId, "old", 1, "p1")>>,
       projects |-> <<Project("p1", "Work"), Project("p2", "Home")>>] }

InitReview ==
    /\ store \in ReviewStores
    /\ pc = "idle"
    /\ existing_tasks = <<>>
    /\ existing_projects = <<>>
    /\ new_projects = <<>>
    /\ parsed_tasks = <<>>
    /\ new_tasks = <<>>
    /\ final_projects = <<>>
    /\ out = ""
    /\ steps = 0
    /\ writes = 0
    /\ store0 = store
    /\ typed = Typed(<<>>, NoEntry, NoEntry)
    /\ SessionInit
    /\ archive = <<>>
    /\ tasks_to_archive = <<>>

NextReview ==
    \/ \E data \in ReviewBatches : Ingest(data)
    \/ \E cause \in IngestFailures : IngestFail(cause)
    \/ \E choice \in Choices : Save(choice)
    \/ \E choice \in Choices : Discard(choice)
    \/ \E choice \in {c \in Choices : Dispatch(c) = "edit"}, e \in EditEntries :
          Edit(choice, e.title, e.tomatoes, e.deadline, e.project, e.confirm)
    \/ \E choice \in Choices : EditInvalid(choice)
    \/ \E p_list \in ListsOf(ActiveNames(new_tasks, final_projects)), m \in MergeEntries :
          Merge(<<"m">>, p_list, m[1], m[2])
    \/ \E p_list \in ListsOf(ActiveNames(new_tasks, final_projects)), m \in MergeEntries :
          MergeInvalid(<<"m">>, p_list, m[1], m[2])
    \/ \E choice \in Choices : Unknown(choice)

SpecReview == InitReview /\ [][NextReview]_vars

\* ----------------------------------------------------------- session index
\* ref.replace('-', '')
RemoveDashes(ref) == SelectSeq(ref, LAMBDA c : c # "-")

\* No filter given (project=None, id=None).
NoFilter == <<>>

\* filter_tasks with due=None: archived tasks are skipped, then the id
\* prefix and the project-name substring filters apply.
FilterTasks(tasks, projects, project_filter, id_filter) ==
    LET project_map == ProjectMap(projects, EmptyDict)
        Keep(t) ==
            /\ t.status # "archived"
            /\ id_filter # NoFilter => StartsWith(t.id, id_filter)
            /\ project_filter # NoFilter =>
                  Contains(Lower(project_filter),
                           Lower(Chars(DictGet(project_map, t.project_id, "No Project"))))
    IN  SelectSeq(tasks, Keep)

\* sort_key(t) = (p_name, deadline_val, t.id)
SortKey(t, project_map) ==
    <<Chars(DictGet(project_map, t.project_id, "No Project")),
      Chars(IF t.deadline # NoneVal /\ t.deadline # "" THEN t.deadline ELSE "9999-12-31"),
      t.id>>

\* k1 < k2 on tuples of str.
KeyLess(k1, k2) ==
    \/ StrLess(k1[1], k2[1])
    \/ k1[1] = k2[1] /\ StrLess(k1[2], k2[2])
    \/ k1[1] = k2[1] /\ k1[2] = k2[2] /\ StrLess(k1[3], k2[3])

\* list.sort(key=sort_key): a stable sort.
RECURSIVE InsertSorted(_, _, _)
InsertSorted(t, sorted, project_map) ==
    IF sorted = <<>> THEN <<t>>
    ELSE IF KeyLess(SortKey(t, project_map), SortKey(Head(sorted), project_map))
         THEN <<t>> \o sorted
         ELSE <<Head(sorted)>> \o InsertSorted(t, Tail(sorted), project_map)

RECURSIVE SortTasks(_, _)
SortTasks(tasks, project_map) ==
    IF tasks = <<>> THEN <<>>
    ELSE InsertSorted(tasks[Len(tasks)],
                      SortTasks(SubSeq(tasks, 1, Len(tasks) - 1), project_map),
                      project_map)

\* Mutant of BuildIndexMap: the counter starts at 0.
BuildIndexMapFromZero(filtered_tasks) ==
    [key \in {Str(i - 1) : i \in DOMAIN filtered_tasks} |->
        filtered_tasks[CHOOSE i \in DOMAIN filtered_tasks : Str(i - 1) = key].id]

\* current_index = 1; for t in filtered_tasks:
\*     TASK_INDEX_MAP[str(current_index)] = t.id; current_index += 1
BuildIndexMap(filtered_tasks) ==
    [key \in {Str(i) : i \in DOMAIN filtered_tasks} |->
        filtered_tasks[CHOOSE i \in DOMAIN filtered_tasks : Str(i) = key].id]

\* for t in tasks: if t.id.startswith(ref): ...; break
RECURSIVE FirstWithPrefix(_, _)
FirstWithPrefix(tasks, ref) ==
    IF tasks = <<>> THEN [found |-> FALSE, id |-> <<>>]
    ELSE IF StartsWith(Head(tasks).id, ref) THEN [found |-> TRUE, id |-> Head(tasks).id]
         ELSE FirstWithPrefix(Tail(tasks), ref)

\* start: the index if task_ref is a key of the session index, else the
\* first task whose id starts with task_ref.
ResolveStart(task_ref, index_map, tasks) ==
    IF IsDigit(task_ref) /\ task_ref \in DOMAIN index_map
    THEN [found |-> TRUE, id |-> index_map[task_ref]]
    ELSE FirstWithPrefix(tasks, task_ref)

\* for i in range(start, end + 1): if str(i) in TASK_INDEX_MAP: append
RECURSIVE RangeIds(_, _, _)
RangeIds(i, end, index_map) ==
    IF i > end THEN <<>>
    ELSE (IF Str(i) \in DOMAIN index_map THEN <<index_map[Str(i)]>> ELSE <<>>)
         \o RangeIds(i + 1, end, index_map)

\* One pass of the loop over refs; raised marks the ValueError of
\* start, end = map(int, ref.split('-')).
ParseRef(ref, index_map, tasks) ==
    IF Contains(<<"-">>, ref) /\ IsDigit(RemoveDashes(ref))
    THEN LET pieces == Split(ref, "-")
         IN  IF Len(pieces) # 2 \/ ~PyInt(pieces[1]).ok \/ ~PyInt(pieces[2]).ok
             THEN [raised |-> TRUE, ids |-> <<>>, warnings |-> <<>>]
             ELSE [raised |-> FALSE,
                   ids |-> RangeIds(PyInt(pieces[1]).val, PyInt(pieces[2]).val, index_map),
                   warnings |-> <<>>]
    ELSE IF IsDigit(ref) /\ ref \in DOMAIN index_map
    THEN [raised |-> FALSE, ids |-> <<index_map[ref]>>, warnings |-> <<>>]
    ELSE LET first == FirstWithPrefix(tasks, ref)
         IN  IF first.found
             THEN [raised |-> FALSE, ids |-> <<first.id>>, warnings |-> <<>>]
             ELSE [raised |-> FALSE, ids |-> <<>>, warnings |-> <<ref>>]

RECURSIVE ParseRefs(_, _, _, _)
ParseRefs(refs, index_map, tasks, acc) ==
    IF refs = <<>> THEN acc
    ELSE LET r == ParseRef(Strip(Head(refs)), index_map, tasks)
         IN  IF r.raised THEN [acc EXCEPT !.raised = TRUE]
             ELSE ParseRefs(Tail(refs), index_map, tasks,
                            [raised |-> FALSE, ids |-> acc.ids \o r.ids,
                             warnings |-> acc.warnings \o r.warnings])

\* Mutant of PyListOfSet: the list is returned as collected.
ListAsCollected(target_ids) == {target_ids}

\* list(set(target_ids)): each id once, in an order the set decides.
PyListOfSet(target_ids) == ListsOf(Range(target_ids))

\* parse_task_refs up to its return statement: target_ids as collected.
ParseTaskRefs(task_ref_str, index_map, tasks) ==
    ParseRefs(Split(task_ref_str, ","), index_map, tasks,
              [raised |-> FALSE, ids |-> <<>>, warnings |-> <<>>])

\* datetime.now().isoformat() during the n-th command of the run (0: before
\* the run).
Stamps == <<"t0", "t1", "t2", "t3", "t4", "t5", "t6", "t7">>

StampAt(n) == Stamps[n + 1]

\* datetime.fromisoformat(stamp) returns: a string that is no ISO date
\* raises ValueError.
IsStamp(stamp) == \E i \in DOMAIN Stamps : Stamps[i] = stamp

\* datetime.fromisoformat(stamp), in days since the start of the run.
StampVal(stamp) == (CHOOSE i \in DOMAIN Stamps : Stamps[i] = stamp) - 1

\* A stored task of the listed stores; a done task was completed before
\* the run.
StoredTask(id, pid, deadline, status) ==
    [Task(id, "t", 1, pid) EXCEPT !.deadline = deadline, !.status = status,
                                  !.completed_at = IF status \in {"done", "archived"}
                                                   THEN StampAt(0)
                                                   ELSE NoneVal]

\* The stores the listing commands start from: uuid4 ids (hexadecimal
\* characters), some beginning with a digit, one written out into its second
\* group.
RefStores ==
    { [tasks |-> <<>>, projects |-> <<>>],
      [tasks |-> << StoredTask(<<"a", "b">>, NoneVal, "2026-02-01", "todo"),
                    StoredTask(<<"a", "1">>, NoneVal, "2026-01-01", "in_progress"),
                    StoredTask(<<"7", "-", "4", "c">>, NoneVal, NoDeadline, "todo") >>,
       projects |-> <<>>],
      [tasks |-> << StoredTask(<<"b", "1">>, "p1", NoDeadline, "todo"),
                    StoredTask(<<"1", "a">>, NoneVal, "2026-02-01", "todo"),
                    StoredTask(<<"a", "2">>, "p2", NoDeadline, "done"),
                    StoredTask(<<"2", "c">>, "p1", "2026-01-01", "todo"),
                    StoredTask(<<"3", "d">>, "p2", "2026-01-01", "todo") >>,
       projects |-> <<Project("p1", "Work"), Project("p2", "Docs")>>] }

\* The options of list: project and id.
ListFilters ==
    { [project |-> NoFilter, id |-> NoFilter],
      [project |-> <<"W", "O">>, id |-> NoFilter],
      [project |-> NoFilter, id |-> <<"a">>],
      [project |-> <<"x">>, id |-> NoFilter] }

\* The argument of start.
StartRefs == { <<"2">>, <<"a">>, <<"z", "z">>, <<"7", "-", "4">> }

\* The argument of complete, delete and edit.
RefStrings ==
    { <<"1">>,
      <<"1", ",", "3", "-", "4">>,
      <<"2", "-", "4", ",", "3">>,
      <<" ", "2", " ", ",", " ", "5">>,
      <<"a">>,
      <<"z", "z">>,
      <<"3", "-">>,
      <<"8", "-", "9">>,
      <<"3", "-", "1">> }

DeleteRefStrings ==
    { <<"1">>, <<"1", ",", "3", "-", "4">>, <<"z", "z">>, <<"3", "-">> }

\* datetime.now().isoformat() in the command that is running.
Now == StampAt(steps + 1)

\* An uncaught exception has not ended the process, and no archive command
\* is between its two writes.
Running == ~target.raised /\ tasks_to_archive = <<>>

\* cleared: the entries TASK_INDEX_MAP.clear() removed; timer: how
\* timer.run_timer ended ("finished", "stopped"), "none" when it did not run;
\* confirm: the answer to delete's typer.confirm, "none" when it was not asked.
Ref(cmd, ref, raised, ids, warnings) ==
    [cmd |-> cmd, ref |-> ref, raised |-> raised, ids |-> ids, warnings |-> warnings,
     cleared |-> 0, timer |-> "none", is_done |-> "none", days |-> 0, confirm |-> "none"]

\* A new process: the module is loaded again; what the old process had not
\* written yet is gone.
NewProcess ==
    /\ UNCHANGED storageVars
    /\ UNCHANGED githubVars
    /\ steps < MaxCommands
    /\ sessionVars # <<EmptyDict, <<>>, NoTarget>> \/ tasks_to_archive # <<>>
    /\ TASK_INDEX_MAP' = EmptyDict
    /\ displayed' = <<>>
    /\ target' = NoTarget
    /\ tasks_to_archive' = <<>>
    /\ UNCHANGED <<store, out, steps, writes, archive>>
    /\ UNCHANGED ingestVars

\* Mutant of RebuildIndexMap: the index is not cleared first.
RebuildIndexMapNoClear(index_map, filtered_tasks) ==
    LET new == IF filtered_tasks = <<>> THEN EmptyDict ELSE BuildIndexMap(filtered_tasks)
    IN  [key \in DOMAIN index_map \cup DOMAIN new |->
            IF key \in DOMAIN new THEN new[key] ELSE index_map[key]]

\* TASK_INDEX_MAP.clear(), then the early return on an empty listing or the
\* entries of the listing: nothing of index_map is kept.
RebuildIndexMap(index_map, filtered_tasks) ==
    IF filtered_tasks = <<>> THEN EmptyDict ELSE BuildIndexMap(filtered_tasks)

\* list --project ... --id ...
ListTasks(project_filter, id_filter) ==
    /\ UNCHANGED storageVars
    /\ UNCHANGED githubVars
    /\ Running
    /\ steps < MaxCommands
    /\ LET project_map == ProjectMap(store.projects, EmptyDict)
           filtered_tasks ==
               SortTasks(FilterTasks(store.tasks, store.projects, project_filter, id_filter),
                         project_map)
       IN  /\ TASK_INDEX_MAP' = RebuildIndexMap(TASK_INDEX_MAP, filtered_tasks)
           /\ displayed' = [i \in DOMAIN filtered_tasks |-> filtered_tasks[i].id]
           /\ out' = IF filtered_tasks = <<>> THEN "No tasks found matching criteria."
                     ELSE "Pending Tasks"
    /\ target' = [Ref("list", <<>>, FALSE, <<>>, <<>>) EXCEPT
                     !.cleared = Cardinality(DOMAIN TASK_INDEX_MAP)]
    /\ steps' = steps + 1
    /\ UNCHANGED <<store, writes>>
    /\ UNCHANGED ingestVars
    /\ UNCHANGED archiveVars

\* next((t for t in tasks if t.id == id), None): the position of the first
\* task with the id (the caller has checked there is one).
FirstIndexOf(tasks, id) ==
    CHOOSE i \in DOMAIN tasks :
        tasks[i].id = id /\ \A k \in 1..(i - 1) : tasks[k].id # id

\* Mutant of TargetTask: an id that no task has falls back on the first task.
TargetTaskOrFirst(tasks, target_task_id) ==
    IF \E i \in DOMAIN tasks : tasks[i].id = target_task_id
    THEN [found |-> TRUE, i |-> FirstIndexOf(tasks, target_task_id)]
    ELSE [found |-> tasks # <<>>, i |-> 1]

\* start: next((t for t in tasks if t.id == target_task_id), None)
TargetTask(tasks, target_task_id) ==
    IF \E i \in DOMAIN tasks : tasks[i].id = target_task_id
    THEN [found |-> TRUE, i |-> FirstIndexOf(tasks, target_task_id)]
    ELSE [found |-> FALSE, i |-> 0]

\* Mutant of TimerSession: a stopped timer ends start without the question.
TimerSessionStopSkipsConfirm(t, interrupted, is_done, now) ==
    [t EXCEPT !.completed_tomatoes = IF interrupted THEN @ ELSE @ + 1,
              !.status = IF is_done /\ ~interrupted THEN "done" ELSE "in_progress",
              !.completed_at = IF is_done /\ ~interrupted THEN now ELSE @]

\* Mutant of TimerSession: a stopped timer counts as a tomato too.
TimerSessionCountsStopped(t, interrupted, is_done, now) ==
    [t EXCEPT !.completed_tomatoes = @ + 1,
              !.status = IF is_done THEN "done" ELSE "in_progress",
              !.completed_at = IF is_done THEN now ELSE @]

\* start, from the status update to the end: in_progress, the timer (a
\* tomato unless it is stopped), the confirmation.
TimerSession(t, interrupted, is_done, now) ==
    [t EXCEPT !.completed_tomatoes = IF interrupted THEN @ ELSE @ + 1,
              !.status = IF is_done THEN "done" ELSE "in_progress",
              !.completed_at = IF is_done THEN now ELSE @]

\* start <task_ref>; interrupted: Ctrl-C stops the timer; is_done: the
\* answer to "Did you finish this task?".
Start(task_ref, interrupted, is_done) ==
    /\ UNCHANGED storageVars
    /\ UNCHANGED githubVars
    /\ Running
    /\ steps < MaxCommands
    /\ LET tasks == store.tasks
           r == ResolveStart(task_ref, TASK_INDEX_MAP, tasks)
           target_task == IF r.found THEN TargetTask(tasks, r.id)
                          ELSE [found |-> FALSE, i |-> 0]
           started == target_task.found
       IN  /\ target' = [Ref("start", task_ref, FALSE,
                             IF r.found THEN <<r.id>> ELSE <<>>, <<>>) EXCEPT
                            !.timer = IF ~started THEN "none"
                                      ELSE IF interrupted THEN "stopped" ELSE "finished",
                            !.is_done = IF ~started THEN "none"
                                        ELSE IF is_done THEN "yes" ELSE "no"]
           /\ IF ~r.found
              THEN /\ out' = "Task not found. Try running 'list' first."
                   /\ UNCHANGED <<store, writes>>
              ELSE IF ~target_task.found
              THEN /\ out' = "Task with ID not found."
                   /\ UNCHANGED <<store, writes>>
              ELSE /\ store' = SaveData([tasks EXCEPT ![target_task.i] =
                                                 TimerSession(@, interrupted, is_done, Now)],
                                      store.projects)
                   /\ writes' = writes + 2
                   /\ out' = IF is_done THEN "Task marked as DONE!"
                             ELSE "Task status remains 'in_progress'."
    /\ steps' = steps + 1
    /\ UNCHANGED <<TASK_INDEX_MAP, displayed>>
    /\ UNCHANGED ingestVars
    /\ UNCHANGED archiveVars

\* complete <task_refs>
Complete(task_refs) ==
    /\ UNCHANGED storageVars
    /\ UNCHANGED githubVars
    /\ Running
    /\ steps < MaxRefCommands
    /\ LET tasks == store.tasks
           r == ParseTaskRefs(task_refs, TASK_INDEX_MAP, tasks)
       IN  IF r.raised
           THEN /\ target' = Ref("complete", task_refs, TRUE, <<>>, r.warnings)
                /\ out' = "ValueError"
                /\ UNCHANGED <<store, writes>>
           ELSE \E target_ids \in PyListOfSet(r.ids) :
                /\ target' = Ref("complete", task_refs, FALSE, target_ids, r.warnings)
                /\ IF target_ids = <<>>
                   THEN /\ out' = "No valid tasks found."
                        /\ UNCHANGED <<store, writes>>
                   ELSE /\ store' = SaveData(
                               [i \in DOMAIN tasks |->
                                   IF tasks[i].id \in Range(target_ids)
                                   THEN [tasks[i] EXCEPT !.status = "done",
                                                         !.completed_at = Now]
                                   ELSE tasks[i]],
                               store.projects)
                        /\ writes' = writes + 1
                        /\ out' = "Marked tasks as DONE!"
    /\ steps' = steps + 1
    /\ UNCHANGED <<TASK_INDEX_MAP, displayed>>
    /\ UNCHANGED ingestVars
    /\ UNCHANGED archiveVars

\* delete <task_refs>; confirm: the answer to "Are you sure ...?".
\* tasks_to_delete: the tasks of the store the resolved ids name.
TasksToDelete(tasks, target_ids) ==
    SelectSeq(tasks, LAMBDA t : t.id \in Range(target_ids))

DeleteNewTasksDropsAll(tasks, target_ids) == <<>>

\* new_tasks = [t for t in tasks if t.id not in target_ids]
DeleteNewTasks(tasks, target_ids) ==
    SelectSeq(tasks, LAMBDA t : t.id \notin Range(target_ids))

Delete(task_refs, confirm) ==
    /\ UNCHANGED storageVars
    /\ UNCHANGED githubVars
    /\ Running
    /\ steps < MaxCommands
    /\ LET tasks == store.tasks
           r == ParseTaskRefs(task_refs, TASK_INDEX_MAP, tasks)
       IN  IF r.raised
           THEN /\ target' = Ref("delete", task_refs, TRUE, <<>>, r.warnings)
                /\ out' = "ValueError"
                /\ UNCHANGED <<store, writes>>
           ELSE \E target_ids \in PyListOfSet(r.ids) :
                /\ target' = [Ref("delete", task_refs, FALSE, target_ids, r.warnings)
                                 EXCEPT !.confirm =
                                     IF TasksToDelete(tasks, target_ids) = <<>> THEN "none"
                                     ELSE IF confirm THEN "yes" ELSE "no"]
                /\ IF target_ids = <<>>
                   THEN /\ out' = "No valid tasks found."
                        /\ UNCHANGED <<store, writes>>
                   ELSE IF TasksToDelete(tasks, target_ids) = <<>>
                   THEN /\ out' = "No tasks found to delete."
                        /\ UNCHANGED <<store, writes>>
                   ELSE IF ~confirm
                   THEN /\ out' = "Deletion cancelled."
                        /\ UNCHANGED <<store, writes>>
                   ELSE /\ store' = SaveData(DeleteNewTasks(tasks, target_ids),
                                             store.projects)
                        /\ writes' = writes + 1
                        /\ out' = "Deleted tasks."
    /\ steps' = steps + 1
    /\ UNCHANGED <<TASK_INDEX_MAP, displayed>>
    /\ UNCHANGED ingestVars
    /\ UNCHANGED archiveVars

\* Mutant of EditSingle: a project is created for every entered name that
\* differs from the label shown.
EditSingleAlwaysCreates(t, projects, e) ==
    LET p_name == DictGet(ProjectMap(projects, EmptyDict), t.project_id, "Unknown")
        new_p_name == PromptAsk(e.project, p_name)
    IN  IF new_p_name = p_name THEN [task |-> t, projects |-> projects]
        ELSE [task |-> [t EXCEPT !.project_id = NextCreatedId(projects)],
              projects |-> Append(projects, Project(NextCreatedId(projects), new_p_name))]

\* Mutant of EditSingle: the created project is assigned and not appended.
EditSingleForgetsProject(t, projects, e) ==
    LET p_name == DictGet(ProjectMap(projects, EmptyDict), t.project_id, "Unknown")
        new_p_name == PromptAsk(e.project, p_name)
        found_p == FindByName(projects, new_p_name)
    IN  IF new_p_name = p_name THEN [task |-> t, projects |-> projects]
        ELSE IF found_p.found
        THEN [task |-> [t EXCEPT !.project_id = found_p.p.id], projects |-> projects]
        ELSE [task |-> [t EXCEPT !.project_id = NextCreatedId(projects)],
              projects |-> projects]

\* edit, one target task: the four prompts; the project is looked up or
\* created only when the entered name differs from the label shown.
EditSingle(t, projects, e) ==
    LET p_name == DictGet(ProjectMap(projects, EmptyDict), t.project_id, "Unknown")
        new_tomatoes == PromptAskChars(e.tomatoes, Str(t.estimated_tomatoes))
        new_deadline == PromptAsk(e.deadline, IF t.deadline = NoneVal THEN "" ELSE t.deadline)
        new_p_name == PromptAsk(e.project, p_name)
        found_p == FindByName(projects, new_p_name)
        edited == [t EXCEPT !.title = PromptAsk(e.title, t.title),
                            !.estimated_tomatoes =
                                IF IsDigit(new_tomatoes) THEN PyInt(new_tomatoes).val ELSE @,
                            !.deadline = IF StripDeadline(new_deadline) # "" THEN new_deadline
                                         ELSE NoneVal]
    IN  IF new_p_name = p_name THEN [task |-> edited, projects |-> projects]
        ELSE IF found_p.found
        THEN [task |-> [edited EXCEPT !.project_id = found_p.p.id], projects |-> projects]
        ELSE IF e.confirm
        THEN [task |-> [edited EXCEPT !.project_id = NextCreatedId(projects)],
              projects |-> Append(projects, Project(NextCreatedId(projects), new_p_name))]
        ELSE [task |-> edited, projects |-> projects]

\* edit, any other number of target tasks: one of project, deadline,
\* tomatoes, titles for all the tasks whose id is in target_ids.
EditBulk(tasks, projects, target_ids, e) ==
    LET found_p == FindByName(projects, e.project)
        created == e.bulk = "p" /\ ~found_p.found /\ e.confirm
        target_p_id == IF found_p.found THEN found_p.p.id ELSE NextCreatedId(projects)
        Change(t) ==
            CASE e.bulk = "p" /\ (found_p.found \/ e.confirm) ->
                    [t EXCEPT !.project_id = target_p_id]
              [] e.bulk = "d" ->
                    [t EXCEPT !.deadline = IF StripDeadline(e.deadline) # "" THEN e.deadline
                                           ELSE NoneVal]
              [] e.bulk = "t" /\ IsDigit(e.tomatoes) ->
                    [t EXCEPT !.estimated_tomatoes = PyInt(e.tomatoes).val]
              [] e.bulk = "i" -> [t EXCEPT !.title = PromptAsk(e.title, t.title)]
              [] OTHER -> t
    IN  [tasks |-> [i \in DOMAIN tasks |->
                       IF tasks[i].id \in target_ids THEN Change(tasks[i]) ELSE tasks[i]],
         projects |-> IF created
                      THEN Append(projects, Project(NextCreatedId(projects), e.project))
                      ELSE projects]

\* What the user may enter at the prompts of edit: bulk is the Choice of a
\* bulk edit, the other fields are the entries at the prompts that are shown.
EditCmdEntries ==
    { [bulk |-> "p", title |-> "X", tomatoes |-> <<"2">>, deadline |-> "2026-01-01",
       project |-> "New", confirm |-> TRUE],
      [bulk |-> "d", title |-> "", tomatoes |-> <<>>, deadline |-> "",
       project |-> "", confirm |-> FALSE],
      [bulk |-> "t", title |-> "", tomatoes |-> <<"0">>, deadline |-> " ",
       project |-> "Docs", confirm |-> FALSE],
      [bulk |-> "i", title |-> "X", tomatoes |-> <<"x">>, deadline |-> "",
       project |-> "", confirm |-> FALSE] }

EditRefStrings == { <<"1">>, <<"1", ",", "3", "-", "4">>, <<"z", "z">> }

\* edit <task_refs>
EditCmd(task_refs, e) ==
    /\ UNCHANGED storageVars
    /\ UNCHANGED githubVars
    /\ Running
    /\ steps < MaxRefCommands
    /\ LET tasks == store.tasks
           r == ParseTaskRefs(task_refs, TASK_INDEX_MAP, tasks)
       IN  IF r.raised
           THEN /\ target' = Ref("edit", task_refs, TRUE, <<>>, r.warnings)
                /\ out' = "ValueError"
                /\ UNCHANGED <<store, writes>>
           ELSE \E target_ids \in PyListOfSet(r.ids) :
                /\ target' = Ref("edit", task_refs, FALSE, target_ids, r.warnings)
                /\ IF target_ids = <<>>
                   THEN /\ out' = "No valid tasks found."
                        /\ UNCHANGED <<store, writes>>
                   ELSE LET IsTarget(t) == t.id \in Range(target_ids)
                            target_tasks == SelectSeq(tasks, IsTarget)
                        IN  /\ writes' = writes + 1
                            /\ IF Len(target_tasks) = 1
                               THEN LET one == EditSingle(target_tasks[1], store.projects, e)
                                    IN  /\ store' = SaveData(
                                               [i \in DOMAIN tasks |->
                                                   IF IsTarget(tasks[i]) THEN one.task
                                                   ELSE tasks[i]],
                                               one.projects)
                                        /\ out' = "Task updated!"
                               ELSE LET all == EditBulk(tasks, store.projects, Range(target_ids), e)
                                    IN  /\ store' = SaveData(all.tasks, all.projects)
                                        /\ out' = "Bulk Editing"
    /\ steps' = steps + 1
    /\ UNCHANGED <<TASK_INDEX_MAP, displayed>>
    /\ UNCHANGED ingestVars
    /\ UNCHANGED archiveVars

\* The --days option of archive.
ArchiveDays == {0, 1}

\* Mutant of ShouldArchive: the status is not looked at.
ShouldArchiveAnyStatus(t, days, now) ==
    \/ days = 0
    \/ /\ t.completed_at # NoneVal
       /\ IsStamp(t.completed_at)
       /\ StampVal(t.completed_at) < StampVal(now) - days

\* archive: should_archive for one task; a command lasts a day, cutoff_date
\* is now - days.
ShouldArchive(t, days, now) ==
    /\ t.status = "done"
    /\ \/ days = 0
       \/ /\ t.completed_at # NoneVal
          /\ IsStamp(t.completed_at)
          /\ StampVal(t.completed_at) < StampVal(now) - days

\* Mutant of ArchiveSplit: the archived tasks stay in tasks_to_keep as they
\* were.
ArchiveSplitKeepsAll(tasks, days, now) ==
    LET chosen == SelectSeq(tasks, LAMBDA t : ShouldArchive(t, days, now))
    IN  [keep |-> tasks,
         archive |-> [i \in DOMAIN chosen |-> [chosen[i] EXCEPT !.status = "archived"]]]

\* Mutant of ArchiveSplit: the archived tasks keep the status done.
ArchiveSplitKeepsStatus(tasks, days, now) ==
    [keep |-> SelectSeq(tasks, LAMBDA t : ~ShouldArchive(t, days, now)),
     archive |-> SelectSeq(tasks, LAMBDA t : ShouldArchive(t, days, now))]

\* archive: tasks_to_keep and tasks_to_archive (status set to archived).
ArchiveSplit(tasks, days, now) ==
    LET chosen == SelectSeq(tasks, LAMBDA t : ShouldArchive(t, days, now))
    IN  [keep |-> SelectSeq(tasks, LAMBDA t : ~ShouldArchive(t, days, now)),
         archive |-> [i \in DOMAIN chosen |-> [chosen[i] EXCEPT !.status = "archived"]]]

\* archive --days N, up to and including storage.save_data(tasks_to_keep,
\* projects).
Archive(days) ==
    /\ UNCHANGED storageVars
    /\ UNCHANGED githubVars
    /\ Running
    /\ steps < MaxCommands
    /\ LET split == ArchiveSplit(store.tasks, days, Now)
       IN  IF split.archive = <<>>
           THEN /\ out' = "No tasks to archive."
                /\ UNCHANGED <<store, writes, tasks_to_archive>>
           ELSE /\ store' = SaveData(split.keep, store.projects)
                /\ writes' = writes + 1
                /\ tasks_to_archive' = split.archive
                /\ out' = "Saved active tasks"
    /\ target' = [Ref("archive", <<>>, FALSE, <<>>, <<>>) EXCEPT !.days = days]
    /\ steps' = steps + 1
    /\ UNCHANGED <<TASK_INDEX_MAP, displayed, archive>>
    /\ UNCHANGED ingestVars

\* storage.append_to_archive(tasks_to_archive): load_archive, extend,
\* save_archive.
ArchiveAppend ==
    /\ UNCHANGED storageVars
    /\ UNCHANGED githubVars
    /\ ~target.raised
    /\ tasks_to_archive # <<>>
    /\ archive' = archive \o tasks_to_archive
    /\ tasks_to_archive' = <<>>
    /\ out' = "Archived tasks."
    /\ UNCHANGED <<store, steps, writes>>
    /\ UNCHANGED sessionVars
    /\ UNCHANGED ingestVars

\* data/archive.json before the run: one task archived earlier.
ArchivedBefore == << StoredTask(<<"c", "9">>, NoneVal, NoDeadline, "archived") >>

InitRefs ==
    /\ store \in RefStores
    /\ pc = "idle"
    /\ existing_tasks = <<>>
    /\ existing_projects = <<>>
    /\ new_projects = <<>>
    /\ parsed_tasks = <<>>
    /\ new_tasks = <<>>
    /\ final_projects = <<>>
    /\ out = ""
    /\ steps = 0
    /\ writes = 0
    /\ store0 = store
    /\ typed = Typed(<<>>, NoEntry, NoEntry)
    /\ SessionInit
    /\ archive = ArchivedBefore
    /\ tasks_to_archive = <<>>

NextRefs ==
    \/ NewProcess
    \/ \E f \in ListFilters : ListTasks(f.project, f.id)
    \/ \E task_ref \in StartRefs, interrupted \in BOOLEAN, is_done \in BOOLEAN :
          Start(task_ref, interrupted, is_done)
    \/ \E task_refs \in RefStrings : Complete(task_refs)
    \/ \E task_refs \in DeleteRefStrings, confirm \in BOOLEAN : Delete(task_refs, confirm)
    \/ \E task_refs \in EditRefStrings, e \in EditCmdEntries : EditCmd(task_refs, e)
    \/ \E days \in ArchiveDays : Archive(days)
    \/ ArchiveAppend

SpecRefs == InitRefs /\ [][NextRefs]_vars

\* -------------------------------------------------------------- data file
\* What data/tasks.json may hold: nothing (no file), bytes that are no JSON
\* (garbage, an empty or a half-written file), JSON that is no object,
\* an object whose task records have a field Task does not declare, lack
\* the title, or carry a status that TaskStatus does not list, and the
\* collections save_data wrote.
BrokenKinds ==
    {"missing", "not_json", "not_object", "unknown_field", "missing_field",
     "unknown_status"}

BrokenFile(kind) == [kind |-> kind, tasks |-> <<>>, projects |-> <<>>]

DataFile(data) == [kind |-> "data", tasks |-> data.tasks, projects |-> data.projects]

\* The collections the commands hand to save_data.
StorageData ==
    { NoData,
      [tasks |-> <<StoredTask(<<"a", "1">>, "p1", NoDeadline, "todo")>>,
       projects |-> <<Project("p1", "Work")>>],
      [tasks |-> <<StoredTask(<<"a", "1">>, "p1", NoDeadline, "done"),
                   StoredTask(<<"b", "2">>, NoneVal, NoDeadline, "todo")>>,
       projects |-> <<Project("p1", "Work")>>] }

\* storage.load_data: _load_json gives empty collections for a missing file
\* and on json.JSONDecodeError, and nothing else is caught: data.get on a
\* value that is no dict raises AttributeError, cls(**data) raises TypeError
\* on an unknown or a missing field, TaskStatus(value) raises ValueError.
LoadData(f) ==
    CASE f.kind \in {"missing", "not_json"} -> [raised |-> FALSE, data |-> NoData]
      [] f.kind = "not_object" -> [raised |-> TRUE, data |-> NoData]
      [] f.kind \in {"unknown_field", "missing_field"} -> [raised |-> TRUE, data |-> NoData]
      [] f.kind = "unknown_status" -> [raised |-> TRUE, data |-> NoData]
      [] f.kind = "data" ->
            [raised |-> FALSE, data |-> [tasks |-> f.tasks, projects |-> f.projects]]

\* The data file is removed or overwritten from outside the program.
Corrupt(kind) ==
    /\ saving.phase = "idle"
    /\ file' = BrokenFile(kind)
    /\ UNCHANGED <<saving, loaded>>
    /\ UNCHANGED <<store, out, steps, writes>>
    /\ UNCHANGED ingestVars
    /\ UNCHANGED sessionVars
    /\ UNCHANGED archiveVars
    /\ UNCHANGED githubVars

\* load_data, called by this process or another one, at any moment.
LoadDataCall ==
    /\ loaded' = [phase |-> saving.phase, raised |-> LoadData(file).raised,
                  data |-> LoadData(file).data, old |-> saving.old, new |-> saving.new]
    /\ UNCHANGED <<file, saving>>
    /\ UNCHANGED <<store, out, steps, writes>>
    /\ UNCHANGED ingestVars
    /\ UNCHANGED sessionVars
    /\ UNCHANGED archiveVars
    /\ UNCHANGED githubVars

\* save_data -> _save_json: open(filepath, 'w') truncates the file. The
\* caller has loaded the file before.
SaveOpen(data) ==
    /\ saving.phase \in {"idle", "killed"}
    /\ ~LoadData(file).raised
    /\ saving' = [phase |-> "opened", old |-> LoadData(file).data, new |-> data]
    /\ file' = BrokenFile("not_json")
    /\ UNCHANGED loaded
    /\ UNCHANGED <<store, out, steps, writes>>
    /\ UNCHANGED ingestVars
    /\ UNCHANGED sessionVars
    /\ UNCHANGED archiveVars
    /\ UNCHANGED githubVars

\* json.dump(data, f, indent=4): the text reaches the file piece by piece.
SaveDump ==
    /\ saving.phase = "opened"
    /\ saving' = [saving EXCEPT !.phase = "partial"]
    /\ file' = BrokenFile("not_json")
    /\ UNCHANGED loaded
    /\ UNCHANGED <<store, out, steps, writes>>
    /\ UNCHANGED ingestVars
    /\ UNCHANGED sessionVars
    /\ UNCHANGED archiveVars
    /\ UNCHANGED githubVars

\* The with block ends: the whole text is in the file.
SaveClose ==
    /\ saving.phase = "partial"
    /\ saving' = [saving EXCEPT !.phase = "idle"]
    /\ file' = DataFile(saving.new)
    /\ UNCHANGED loaded
    /\ UNCHANGED <<store, out, steps, writes>>
    /\ UNCHANGED ingestVars
    /\ UNCHANGED sessionVars
    /\ UNCHANGED archiveVars
    /\ UNCHANGED githubVars

\* The process is ended (Ctrl-C, kill, power) inside _save_json.
SaveKilled ==
    /\ saving.phase \in {"opened", "partial"}
    /\ saving' = [saving EXCEPT !.phase = "killed"]
    /\ UNCHANGED <<file, loaded>>
    /\ UNCHANGED <<store, out, steps, writes>>
    /\ UNCHANGED ingestVars
    /\ UNCHANGED sessionVars
    /\ UNCHANGED archiveVars
    /\ UNCHANGED githubVars

InitStorage ==
    /\ store = NoData
    /\ pc = "idle"
    /\ existing_tasks = <<>>
    /\ existing_projects = <<>>
    /\ new_projects = <<>>
    /\ parsed_tasks = <<>>
    /\ new_tasks = <<>>
    /\ final_projects = <<>>
    /\ out = ""
    /\ steps = 0
    /\ writes = 0
    /\ store0 = store
    /\ typed = Typed(<<>>, NoEntry, NoEntry)
    /\ TASK_INDEX_MAP = <<>>
    /\ displayed = <<>>
    /\ target = NoTarget
    /\ github = NoGithub
    /\ archive = <<>>
    /\ tasks_to_archive = <<>>
    /\ file \in {NoFile} \cup {DataFile(data) : data \in StorageData}
    /\ saving = NotSaving
    /\ loaded = NotLoaded

NextStorage ==
    \/ \E kind \in BrokenKinds : Corrupt(kind)
    \/ LoadDataCall
    \/ \E data \in StorageData : SaveOpen(data)
    \/ SaveDump
    \/ SaveClose
    \/ SaveKilled

SpecStorage == InitStorage /\ [][NextStorage]_vars

\* ------------------------------------------------------------ check_github
MaxIssues == 2

\* What fetch_open_issues may return: the numbers of the open issues.
FetchedIssues == { [i \in 1..n |-> i] : n \in 1..MaxIssues }

\* Mutant of CloseAll: the first close_issue that raises ends the loop.
RECURSIVE CloseAllStopsAtFailure(_, _)
CloseAllStopsAtFailure(issues, failing) ==
    IF issues = <<>> THEN [closed |-> <<>>, failed |-> <<>>]
    ELSE IF Head(issues) \in failing
    THEN [closed |-> <<>>, failed |-> <<Head(issues)>>]
    ELSE LET rest == CloseAllStopsAtFailure(Tail(issues), failing)
         IN  [closed |-> <<Head(issues)>> \o rest.closed, failed |-> rest.failed]

\* for number, _, _ in issues: try close_issue except Exception: print.
\* failing: the issues whose close_issue raises.
RECURSIVE CloseAll(_, _)
CloseAll(issues, failing) ==
    IF issues = <<>> THEN [closed |-> <<>>, failed |-> <<>>]
    ELSE LET rest == CloseAll(Tail(issues), failing)
         IN  IF Head(issues) \in failing
             THEN [closed |-> rest.closed, failed |-> <<Head(issues)>> \o rest.failed]
             ELSE [closed |-> <<Head(issues)>> \o rest.closed, failed |-> rest.failed]

\* check_github up to the call of ingest_logic. result: "fetch_failed"
\* (fetch_open_issues raises), "no_issues", or "fetched" with the issues.
CheckGithub(result, issues) ==
    /\ github.state = "none"
    /\ pc = "idle"
    /\ github' = [state |-> result,
                  issues |-> IF result = "fetched" THEN issues ELSE <<>>,
                  closed |-> <<>>, failed |-> <<>>]
    /\ out' = CASE result = "fetch_failed" -> "Error checking GitHub"
                [] result = "no_issues" -> "No open issues found."
                [] OTHER -> "Found open issues."
    /\ UNCHANGED <<store, steps, writes>>
    /\ UNCHANGED ingestVars
    /\ UNCHANGED sessionVars
    /\ UNCHANGED archiveVars
    /\ UNCHANGED storageVars

\* check_github after ingest_logic has returned: if saved, close every
\* fetched issue.
CloseIssues(failing) ==
    /\ github.state = "fetched"
    /\ IngestResult # "running"
    /\ LET done == IF IngestResult = "True" THEN CloseAll(github.issues, failing)
                   ELSE [closed |-> <<>>, failed |-> <<>>]
       IN  github' = [github EXCEPT !.state = "done", !.closed = done.closed,
                                    !.failed = done.failed]
    /\ out' = IF IngestResult = "True" THEN "GitHub sync complete!"
              ELSE "Ingest discarded. GitHub issues left open."
    /\ UNCHANGED <<store, steps, writes>>
    /\ UNCHANGED ingestVars
    /\ UNCHANGED sessionVars
    /\ UNCHANGED archiveVars
    /\ UNCHANGED storageVars

NextGithub ==
    \/ \E result \in {"fetch_failed", "no_issues", "fetched"}, issues \in FetchedIssues :
          CheckGithub(result, issues)
    \/ \E data \in ReviewBatches : Ingest(data)
    \/ \E cause \in IngestFailures : IngestFail(cause)
    \/ \E choice \in Choices : Save(choice)
    \/ \E choice \in Choices : Discard(choice)
    \/ \E failing \in SUBSET (1..MaxIssues) : CloseIssues(failing)

SpecGithub == InitReview /\ [][NextGithub]_vars

\* ------------------------------------------------------- the whole program
\* One ingest and the commands of one session, from an empty store and an
\* empty archive. The commands run before the ingest or after its review
\* has ended, not during the review.
ProgramBatches ==
    { [projects |-> <<"Work", "Docs">>,
       tasks |-> <<[title |-> "t", estimated_tomatoes |-> 1, project_name |-> "Work"],
                   [title |-> "t", estimated_tomatoes |-> 1, project_name |-> "Docs"]>>],
      [projects |-> <<"Docs">>,
       tasks |-> <<[title |-> "t", estimated_tomatoes |-> 1, project_name |-> "Docs"],
                   [title |-> "t", estimated_tomatoes |-> 1, project_name |-> NoneVal]>>] }

\* Entries of a review Edit that name a project and leave the rest alone.
ProgramEditEntries ==
    { e \in EditEntries : e.title = "" /\ e.tomatoes = <<>> /\ e.deadline = "" }

ProgramRefs == { <<"1">>, <<"d">>, <<"1", "-", "2">> }

NoReview == pc # "Reviewing"

InitProgram ==
    /\ store = NoData
    /\ pc = "idle"
    /\ existing_tasks = <<>>
    /\ existing_projects = <<>>
    /\ new_projects = <<>>
    /\ parsed_tasks = <<>>
    /\ new_tasks = <<>>
    /\ final_projects = <<>>
    /\ out = ""
    /\ steps = 0
    /\ writes = 0
    /\ store0 = store
    /\ typed = Typed(<<>>, NoEntry, NoEntry)
    /\ SessionInit
    /\ archive = <<>>
    /\ tasks_to_archive = <<>>

NextProgram ==
    \/ \E data \in ProgramBatches : tasks_to_archive = <<>> /\ Ingest(data)
    \/ \E choice \in Choices : Save(choice)
    \/ \E choice \in Choices : Discard(choice)
    \/ \E choice \in {c \in Choices : Dispatch(c) = "edit"}, e \in ProgramEditEntries :
          Edit(choice, e.title, e.tomatoes, e.deadline, e.project, e.confirm)
    \/ \E p_list \in ListsOf(ActiveNames(new_tasks, final_projects)), m \in MergeEntries :
          Merge(<<"m">>, p_list, m[1], m[2])
    \/ NoReview /\ ListTasks(NoFilter, NoFilter)
    \/ \E task_ref \in ProgramRefs, interrupted \in BOOLEAN, is_done \in BOOLEAN :
          NoReview /\ Start(task_ref, interrupted, is_done)
    \/ \E task_refs \in ProgramRefs : NoReview /\ Complete(task_refs)
    \/ \E task_refs \in ProgramRefs, confirm \in BOOLEAN :
          NoReview /\ Delete(task_refs, confirm)
    \/ \E task_refs \in ProgramRefs, e \in EditCmdEntries :
          NoReview /\ EditCmd(task_refs, e)
    \/ \E days \in ArchiveDays : NoReview /\ Archive(days)
    \/ NoReview /\ ArchiveAppend

SpecProgram == InitProgram /\ [][NextProgram]_vars

\* ------------------------------------------------- claims: the merge step
Ids(projects) == {projects[i].id : i \in DOMAIN projects}
Names(projects) == {projects[i].name : i \in DOMAIN projects}

\* The merge step has run and no review action has touched its result.
PostMerge == pc = "Reviewing" /\ steps = 0

\* The batch projects the merge step did not add to the working set.
DroppedIds == Ids(new_projects) \ Ids(final_projects)

\* The batch project a parsed task points at.
BatchProjectOf(j) ==
    CHOOSE p \in Range(new_projects) : p.id = parsed_tasks[j].project_id

\* The first batch project carrying the name of p.
FirstOfName(p) ==
    new_projects[CHOOSE i \in DOMAIN new_projects :
                    /\ new_projects[i].name = p.name
                    /\ \A k \in 1..(i - 1) : new_projects[k].name # p.name]

\* C1: after the merge step, when every parsed task's project_id is null or
\* a batch project's id, every draft task's project_id is null or the id of
\* a project of the working set, and no dropped batch project's id remains
\* on a draft task.
C1_NoDanglingBatchIds ==
    (PostMerge /\ \A j \in DOMAIN parsed_tasks :
                    parsed_tasks[j].project_id \in Ids(new_projects) \cup {NoneVal})
    => \A j \in DOMAIN new_tasks :
          /\ new_tasks[j].project_id \in Ids(final_projects) \cup {NoneVal}
          /\ new_tasks[j].project_id \notin DroppedIds

C1_Witness ==
    /\ PostMerge
    /\ \E j \in DOMAIN new_tasks :
          /\ parsed_tasks[j].project_id \in DroppedIds
          /\ new_tasks[j].project_id \in Ids(existing_projects)
    /\ \E j \in DOMAIN new_tasks :
          /\ parsed_tasks[j].project_id \in Ids(new_projects)
          /\ new_tasks[j].project_id = parsed_tasks[j].project_id

\* C7: merging a batch whose project names are all names of existing
\* projects adds no project, and every draft task with a non-null
\* project_id points at an existing project.
C7_SubsetAddsNothing ==
    (PostMerge /\ Names(new_projects) \subseteq Names(existing_projects))
    => /\ final_projects = existing_projects
       /\ \A j \in DOMAIN new_tasks :
             new_tasks[j].project_id # NoneVal
             => new_tasks[j].project_id \in Ids(existing_projects)

C7_Witness ==
    /\ PostMerge
    /\ Len(new_projects) = 2
    /\ Names(new_projects) \subseteq Names(existing_projects)
    /\ \E j \in DOMAIN new_tasks : new_tasks[j].project_id # NoneVal

\* C8 as stated: a draft task on a batch project named like an existing
\* project ends on the existing project and the batch project is dropped;
\* a draft task on a batch project with a new name keeps its project_id and
\* that project is in the working set.
C8_AsStated ==
    PostMerge =>
    \A j \in DOMAIN new_tasks :
       parsed_tasks[j].project_id \in Ids(new_projects) =>
       LET bp == BatchProjectOf(j) IN
       IF bp.name \in Names(existing_projects)
       THEN /\ new_tasks[j].project_id = FindByName(existing_projects, bp.name).p.id
            /\ bp \notin Range(final_projects)
       ELSE /\ new_tasks[j].project_id = bp.id
            /\ bp \in Range(final_projects)

\* C8 as amended: the draft task of a batch project with a new name keeps
\* its project_id when that project is the first of the batch with that
\* name; a later batch project repeating the name is dropped and its tasks
\* end on the first one.
C8_MergeRemap ==
    PostMerge =>
    \A j \in DOMAIN new_tasks :
       parsed_tasks[j].project_id \in Ids(new_projects) =>
       LET bp == BatchProjectOf(j) IN
       IF bp.name \in Names(existing_projects)
       THEN /\ new_tasks[j].project_id = FindByName(existing_projects, bp.name).p.id
            /\ bp \notin Range(final_projects)
       ELSE IF FirstOfName(bp) = bp
       THEN /\ new_tasks[j].project_id = bp.id
            /\ bp \in Range(final_projects)
       ELSE /\ new_tasks[j].project_id = FirstOfName(bp).id
            /\ FirstOfName(bp) \in Range(final_projects)
            /\ bp \notin Range(final_projects)

\* The scenario of the specification (existing "Work" p1, batch "Work" bp1
\* with one task on it) and, beside it, a repeated new name.
C8_Witness ==
    /\ PostMerge
    /\ existing_projects = <<Project("p1", "Work")>>
    /\ existing_tasks = <<>>
    /\ new_projects = <<Project("bp1", "Work")>>
    /\ Len(new_tasks) = 1
    /\ parsed_tasks[1].project_id = "bp1"
    /\ new_tasks[1].project_id = "p1"
    /\ final_projects = <<Project("p1", "Work")>>

\* ---------------------------------------------- claims: the review session
DistinctNames(projects) ==
    \A i, k \in DOMAIN projects : projects[i].name = projects[k].name => i = k

IsPrefix(a, b) == Len(a) <= Len(b) /\ SubSeq(b, 1, Len(a)) = a

\* C2: a Save after any sequence of review actions writes the tasks the
\* store held when the ingest started, unmodified, followed by the draft
\* tasks of the batch in their final form, and the prior projects followed
\* by the projects the working set added; the session ends in Saved.
C2_SaveWritesUnion ==
    (pc # "Reviewing" /\ typed.choice = <<"s">>) =>
        /\ pc = "Saved"
        /\ writes = 1
        /\ store.tasks = store0.tasks \o new_tasks
        /\ Len(new_tasks) = Len(parsed_tasks)
        /\ \A j \in DOMAIN new_tasks : new_tasks[j].id = parsed_tasks[j].id
        /\ store.projects = final_projects
        /\ IsPrefix(store0.projects, store.projects)
        /\ \A i \in (Len(store0.projects) + 1)..Len(store.projects) :
              store.projects[i].id \in Ids(new_projects) \cup Range(CreatedProjectIds)

C2_Witness ==
    /\ pc = "Saved"
    /\ steps = 2
    /\ store0.tasks # <<>>
    /\ \E j \in DOMAIN new_tasks :
          /\ store.tasks[Len(store0.tasks) + j].title = "X"
          /\ store.tasks[Len(store0.tasks) + j].deadline = "2026-01-01"
    /\ "p_1" \in Ids(store.projects)
    /\ Len(store.projects) > Len(store0.projects) + 1

\* C3: the store is not written while the session is in Reviewing, and
\* after a Discard it is the store the ingest started from.
C3_NoWriteBeforeSave ==
    pc \in {"Reviewing", "Discarded"} => store = store0 /\ writes = 0

C3_Witness ==
    /\ pc = "Discarded"
    /\ steps = 2
    /\ "p_1" \in Ids(final_projects)
    /\ \E j \in DOMAIN new_tasks : new_tasks[j].title = "X"
    /\ store0.tasks # <<>>
    /\ store = store0

\* C6: when the stored project names are pairwise distinct, so are the
\* names of the working set throughout the review and of the projects a
\* Save writes.
C6_SavedNamesDistinct ==
    DistinctNames(store0.projects) =>
        /\ pc = "Reviewing" => DistinctNames(final_projects)
        /\ pc = "Saved" => DistinctNames(store.projects)

C6_Witness ==
    /\ pc = "Saved"
    /\ Len(new_projects) = 2
    /\ new_projects[1].name = new_projects[2].name
    /\ "p_1" \in Ids(store.projects)
    /\ DistinctNames(store0.projects)

TypedEditNumber == PyInt(SplitWs(typed'.choice)[2])

InvalidEditTyped ==
    /\ Dispatch(typed'.choice) = "edit"
    /\ \/ ~TypedEditNumber.ok
       \/ TypedEditNumber.val \notin 1..Len(new_tasks)

InvalidMergeTyped ==
    /\ Dispatch(typed'.choice) = "merge"
    /\ LET n == Cardinality(ActiveNames(new_tasks, final_projects))
           src == PyInt(typed'.src)
           dest == PyInt(typed'.dest)
       IN  \/ ~src.ok \/ ~dest.ok
           \/ src.val \notin 1..n \/ dest.val \notin 1..n
           \/ src.val = dest.val

\* C10: an unrecognized action, an Edit whose index is not a number or not
\* the index of a draft task, and a Merge-Projects whose selection is not
\* numeric, out of range or names the same project twice leave the draft
\* tasks and the working project set as they were, and the session in
\* Reviewing.
C10_InvalidInputKeepsBatch ==
    [][(pc = "Reviewing"
        /\ (Dispatch(typed'.choice) = "unknown" \/ InvalidEditTyped \/ InvalidMergeTyped))
       => /\ new_tasks' = new_tasks
          /\ final_projects' = final_projects
          /\ pc' = "Reviewing"]_vars

C10_Witness ==
    /\ pc = "Reviewing"
    /\ out = "Invalid selection"
    /\ typed.src = typed.dest
    /\ steps = 2
    /\ \E j \in DOMAIN new_tasks : new_tasks[j].title = "X"

\* The projects a valid selection at the Merge prompts names, read against
\* the state the step started from.
MergeSource == FindByName(final_projects, typed'.p_list[PyInt(typed'.src).val]).p

MergeDest == FindByName(final_projects, typed'.p_list[PyInt(typed'.dest).val]).p

\* C11: a valid Merge-Projects(source, dest) re-points every draft task of
\* source to dest and leaves no draft task on source; every other draft
\* task keeps its project_id; source stays in the working project set and is
\* written by a later Save; the tasks of the persisted store are untouched.
C11_MergeRepoints ==
    /\ [][(pc = "Reviewing" /\ Dispatch(typed'.choice) = "merge" /\ ~InvalidMergeTyped) =>
             /\ DOMAIN new_tasks' = DOMAIN new_tasks
             /\ \A j \in DOMAIN new_tasks :
                   /\ new_tasks[j].project_id = MergeSource.id
                         => new_tasks'[j] = [new_tasks[j] EXCEPT !.project_id = MergeDest.id]
                   /\ new_tasks[j].project_id # MergeSource.id => new_tasks'[j] = new_tasks[j]
                   /\ new_tasks'[j].project_id # MergeSource.id
             /\ final_projects' = final_projects
             /\ \E i \in DOMAIN final_projects' : final_projects'[i] = MergeSource
             /\ existing_tasks' = existing_tasks
             /\ store' = store]_vars
    /\ [][(pc = "Reviewing" /\ pc' = "Saved") =>
             /\ store'.projects = final_projects
             /\ IsPrefix(store.tasks, store'.tasks)]_vars

C11_Witness ==
    /\ pc = "Reviewing"
    /\ typed.choice = <<"m">>
    /\ out = "Moved"
    /\ Len(new_tasks) = 2
    /\ new_tasks[1].project_id = new_tasks[2].project_id
    /\ \E i \in DOMAIN final_projects :
          /\ final_projects[i].name = typed.p_list[PyInt(typed.src).val]
          /\ \A j \in DOMAIN new_tasks : new_tasks[j].project_id # final_projects[i].id
          /\ \E j \in DOMAIN store.tasks : store.tasks[j].project_id = final_projects[i].id

\* The label the Project prompt of an Edit shows as its default.
EditedLabel ==
    DictGet(ProjectMap(final_projects, EmptyDict),
            new_tasks[TypedEditNumber.val].project_id, "Unknown")

\* C12: an Edit with a valid index changes only the title, estimate,
\* deadline and project_id of the draft task at that index; the other draft
\* tasks, the existing tasks and the store are unchanged; the working
\* project set is unchanged or grows by one project, and it grows only when
\* the entered name names no project of the set and the user confirms.
C12_EditFrame ==
    [][(pc = "Reviewing" /\ Dispatch(typed'.choice) = "edit" /\ ~InvalidEditTyped) =>
          LET k == TypedEditNumber.val IN
          /\ DOMAIN new_tasks' = DOMAIN new_tasks
          /\ \A j \in DOMAIN new_tasks : j # k => new_tasks'[j] = new_tasks[j]
          /\ new_tasks'[k] = [new_tasks[k] EXCEPT
                                 !.title = new_tasks'[k].title,
                                 !.estimated_tomatoes = new_tasks'[k].estimated_tomatoes,
                                 !.deadline = new_tasks'[k].deadline,
                                 !.project_id = new_tasks'[k].project_id]
          /\ existing_tasks' = existing_tasks
          /\ store' = store
          /\ \/ final_projects' = final_projects
             \/ /\ Len(final_projects') = Len(final_projects) + 1
                /\ IsPrefix(final_projects, final_projects')
                /\ final_projects'[Len(final_projects')].name \notin Names(final_projects)
                /\ final_projects'[Len(final_projects')].name
                      = PromptAsk(typed'.project, EditedLabel)
                /\ typed'.confirm]_vars

C12_Witness ==
    /\ pc = "Reviewing"
    /\ out = "Editing"
    /\ typed.choice = <<"e", " ", "2">>
    /\ typed.project = "New"
    /\ typed.confirm
    /\ Len(new_tasks) = 2
    /\ new_tasks[2].title = "X"
    /\ new_tasks[2].project_id = "p_1"
    /\ new_tasks[1] = parsed_tasks[1] \/ steps > 1
    /\ final_projects[Len(final_projects)] = Project("p_1", "New")

\* ------------------------------------------------ claims: the session index
\* What one token of a reference string selects.
TokenIds(token, index_map, tasks) == Range(ParseTaskRefs(token, index_map, tasks).ids)

NoDuplicates(l) == \A i, k \in DOMAIN l : l[i] = l[k] => i = k

\* C4: after a listing that displays N tasks and until the next listing,
\* the token k, for every k in 1..N, resolves to the id of the k-th
\* displayed task, in start and in parse_task_refs.
C4_IndexRoundTrip ==
    \A k \in 1..Len(displayed) :
        /\ ResolveStart(Str(k), TASK_INDEX_MAP, store.tasks)
              = [found |-> TRUE, id |-> displayed[k]]
        /\ ParseTaskRefs(Str(k), TASK_INDEX_MAP, store.tasks)
              = [raised |-> FALSE, ids |-> <<displayed[k]>>, warnings |-> <<>>]
        /\ (target.cmd \in {"start", "complete", "delete"} /\ target.ref = Str(k))
              => target.ids = <<displayed[k]>>

C4_Witness ==
    /\ target.cmd = "start"
    /\ target.ref = <<"2">>
    /\ Len(displayed) = 5
    /\ target.ids = <<displayed[2]>>
    /\ displayed[2] = <<"a", "2">>
    /\ \E i \in DOMAIN store.tasks : store.tasks[i].id = <<"2", "c">>

\* C5: after a listing of N tasks, "a-b" with 1 <= a <= b <= N selects
\* exactly what a, a+1, ..., b select one by one; a comma-separated list
\* selects the union of what its tokens select ("1,3-4" on a 5-item listing:
\* the ids of indices 1, 3 and 4); the returned list holds each id once.
C5_RangeAndCommaExpansion ==
    /\ [](\A a \in 1..Len(displayed) : \A b \in a..Len(displayed) :
            LET r == ParseTaskRefs(Str(a) \o <<"-">> \o Str(b), TASK_INDEX_MAP, store.tasks)
            IN  /\ ~r.raised
                /\ Range(r.ids) = UNION {TokenIds(Str(i), TASK_INDEX_MAP, store.tasks) : i \in a..b}
                /\ Range(r.ids) = {displayed[i] : i \in a..b}
                /\ \A l \in PyListOfSet(r.ids) : Len(l) = b - a + 1)
    /\ [](Len(displayed) = 5 =>
            TokenIds(<<"1", ",", "3", "-", "4">>, TASK_INDEX_MAP, store.tasks)
               = {displayed[1], displayed[3], displayed[4]})
    /\ [][(target'.cmd \in {"complete", "delete"} /\ ~target'.raised) =>
             LET tokens == Split(target'.ref, ",")
             IN  /\ Range(target'.ids) =
                       UNION {TokenIds(tokens[i], TASK_INDEX_MAP, store.tasks) : i \in DOMAIN tokens}
                 /\ NoDuplicates(target'.ids)]_vars

C5_Witness ==
    /\ target.cmd = "complete"
    /\ target.ref = <<"2", "-", "4", ",", "3">>
    /\ Len(displayed) = 5
    /\ Range(target.ids) = {displayed[2], displayed[3], displayed[4]}
    /\ Len(target.ids) = 3

\* What start and parse_task_refs are to return for one reference: the
\* mapped id for a number of the session index, else the id of the first
\* task whose id starts with the token, else nothing.
ExpectedOne(token) ==
    IF IsDigit(token) /\ token \in DOMAIN TASK_INDEX_MAP
    THEN <<TASK_INDEX_MAP[token]>>
    ELSE IF \E i \in DOMAIN store.tasks : StartsWith(store.tasks[i].id, token)
    THEN <<store.tasks[CHOOSE i \in DOMAIN store.tasks :
                /\ StartsWith(store.tasks[i].id, token)
                /\ \A k \in 1..(i - 1) : ~StartsWith(store.tasks[k].id, token)].id>>
    ELSE <<>>

\* C13: a token that is all digits and a key of the session index resolves
\* to the mapped id; any other token resolves to the id of the first task,
\* in store order, whose id starts with it, or to not-found; in start and
\* in parse_task_refs alike.
C13_ResolveOne ==
    \A token \in StartRefs :
        /\ LET r == ResolveStart(token, TASK_INDEX_MAP, store.tasks)
           IN  (IF r.found THEN <<r.id>> ELSE <<>>) = ExpectedOne(token)
        /\ LET r == ParseTaskRefs(token, TASK_INDEX_MAP, store.tasks)
           IN  ~r.raised /\ r.ids = ExpectedOne(token)

\* The commands that take a list of references.
BulkCommands == {"complete", "delete", "edit"}

\* C14: parse_task_refs returns normally for every comma-separated input,
\* malformed range tokens included, so no bulk command is ended by a bad
\* token.
C14_NeverAborts == target.cmd \in BulkCommands => ~target.raised

\* C15: in a bulk command every token that matches no task is reported
\* with a warning, range tokens without a listed index included.
C15_UnmatchedWarned ==
    [][(target'.cmd \in BulkCommands /\ steps' = steps + 1 /\ ~target'.raised) =>
          LET tokens == Split(target'.ref, ",")
          IN  \A i \in DOMAIN tokens :
                 TokenIds(tokens[i], TASK_INDEX_MAP, store.tasks) = {}
                    => Strip(tokens[i]) \in Range(target'.warnings)]_vars

\* C16: after every listing the keys of the session index are exactly
\* 1..M for the M tasks displayed, each mapped to the task displayed at
\* that position: nothing of an earlier listing is left, and a listing
\* that matches no task leaves the index empty.
C16_IndexRebuilt ==
    /\ DOMAIN TASK_INDEX_MAP = {Str(k) : k \in 1..Len(displayed)}
    /\ \A k \in 1..Len(displayed) : TASK_INDEX_MAP[Str(k)] = displayed[k]

C16_Witness ==
    /\ target.cmd = "list"
    /\ target.cleared = 5
    /\ Len(displayed) = 1
    /\ DOMAIN TASK_INDEX_MAP = {<<"1">>}

TaskIds(tasks) == {tasks[i].id : i \in DOMAIN tasks}

\* C17: the archive command moves the archived tasks from the active store
\* to the archive: at no moment, the one between its two file writes
\* included, is a task of either collection in neither of them or in both,
\* and the active projects are unchanged.
C17_ArchivePartition ==
    [][(target'.cmd = "archive" /\ ~target'.raised /\ <<store, archive>>' # <<store, archive>>) =>
          /\ TaskIds(store'.tasks) \cup TaskIds(archive')
                = TaskIds(store.tasks) \cup TaskIds(archive)
          /\ TaskIds(store'.tasks) \cap TaskIds(archive') = {}
          /\ store'.projects = store.projects]_vars

\* The place of a status in the lifecycle.
StatusRank(status) ==
    CASE status = "todo" -> 0 [] status = "in_progress" -> 1
      [] status = "done" -> 2 [] status = "archived" -> 3

\* C18: no command moves the status of a task backward in the order todo,
\* in_progress, done, archived.
C18_StatusForward ==
    [][\A i \in DOMAIN store.tasks : \A k \in DOMAIN store'.tasks :
          store'.tasks[k].id = store.tasks[i].id =>
              StatusRank(store'.tasks[k].status) >= StatusRank(store.tasks[i].status)]_vars

\* C19: a task has a completed_at exactly when its status is done or
\* archived, and completed_at is not rewritten while the task stays done.
C19_CompletedAtIffDone ==
    /\ [](\A i \in DOMAIN store.tasks :
             (store.tasks[i].completed_at # NoneVal)
                <=> (store.tasks[i].status \in {"done", "archived"}))
    /\ [][\A i \in DOMAIN store.tasks : \A k \in DOMAIN store'.tasks :
             (/\ store'.tasks[k].id = store.tasks[i].id
              /\ store.tasks[i].status = "done"
              /\ store'.tasks[k].status = "done")
                => store'.tasks[k].completed_at = store.tasks[i].completed_at]_vars

\* Every task on file or on its way from one file to the other.
AllTasks == store.tasks \o tasks_to_archive \o archive

\* C20: completed_tomatoes of a task never decreases; it grows by one in a
\* start whose timer runs to its end and is unchanged by every other step
\* (a stopped timer, complete, edit, archive).
C20_TomatoesCount ==
    [][\A i \in DOMAIN AllTasks : \A k \in DOMAIN AllTasks' :
          AllTasks'[k].id = AllTasks[i].id =>
              AllTasks'[k].completed_tomatoes =
                  IF /\ target'.cmd = "start" /\ steps' = steps + 1
                     /\ target'.timer = "finished"
                     /\ target'.ids = <<AllTasks[i].id>>
                  THEN AllTasks[i].completed_tomatoes + 1
                  ELSE AllTasks[i].completed_tomatoes]_vars

C20_Witness ==
    /\ target.cmd = "start"
    /\ target.timer = "stopped"
    /\ steps = 2
    /\ \E i \in DOMAIN store.tasks :
          /\ target.ids = <<store.tasks[i].id>>
          /\ store.tasks[i].completed_tomatoes = 1

\* C21: once start has resolved a task, the timer runs and the user is
\* asked whether the task is finished, after a timer that ran to its end
\* and after a stopped one alike, and the store is saved: the task is done
\* with completed_at set to the time of the answer if the user confirms,
\* in_progress if the user declines.
C21_AlwaysAsked ==
    [][(/\ target'.cmd = "start" /\ steps' = steps + 1
        /\ ExpectedOne(target'.ref) # <<>>
        /\ ExpectedOne(target'.ref)[1] \in TaskIds(store.tasks)) =>
          LET i == FirstIndexOf(store.tasks, ExpectedOne(target'.ref)[1])
          IN  /\ target'.timer \in {"stopped", "finished"}
              /\ target'.is_done \in {"yes", "no"}
              /\ writes' > writes
              /\ target'.is_done = "yes" =>
                    /\ store'.tasks[i].status = "done"
                    /\ store'.tasks[i].completed_at = StampAt(steps')
              /\ target'.is_done = "no" => store'.tasks[i].status = "in_progress"]_vars

C21_Witness ==
    /\ target.cmd = "start"
    /\ target.timer = "stopped"
    /\ target.is_done = "yes"
    /\ \E i \in DOMAIN store.tasks :
          /\ target.ids = <<store.tasks[i].id>>
          /\ store.tasks[i].status = "done"
          /\ store.tasks[i].completed_at = StampAt(steps)
          /\ store.tasks[i].completed_tomatoes = 0

\* C29: a start whose reference resolves to no task of the store, a
\* session index whose task has left the store included, changes no task,
\* runs no timer, does not ask the completion question and writes nothing.
C29_StartNotFoundAborts ==
    [][(/\ target'.cmd = "start" /\ steps' = steps + 1
        /\ \/ ExpectedOne(target'.ref) = <<>>
           \/ ExpectedOne(target'.ref)[1] \notin TaskIds(store.tasks)) =>
          /\ store' = store
          /\ writes' = writes
          /\ target'.timer = "none"
          /\ target'.is_done = "none"]_vars

C29_Witness ==
    /\ target.cmd = "start"
    /\ target.ids # <<>>
    /\ target.ids[1] \notin TaskIds(store.tasks)
    /\ store.tasks # <<>>
    /\ target.timer = "none"

\* C22: a listing made after a task was archived does not display the
\* task and gives it no session index, under every filter; the active
\* store holds no archived task.
C22_ArchivedNeverListed ==
    /\ [](\A i \in DOMAIN store.tasks :
             /\ store.tasks[i].status # "archived"
             /\ store.tasks[i].id \notin TaskIds(archive))
    /\ [][(target'.cmd = "list" /\ steps' = steps + 1) =>
             \A id \in TaskIds(archive) :
                /\ id \notin Range(displayed')
                /\ \A key \in DOMAIN TASK_INDEX_MAP' : TASK_INDEX_MAP'[key] # id]_vars

C22_Witness ==
    /\ target.cmd = "list"
    /\ Len(archive) = 2
    /\ Len(displayed) = 4
    /\ steps = 2

\* Done tasks as a data file may hold them: completed in the run, with no
\* completed_at, with a completed_at that is no date; and tasks not done.
ArchiveSamples ==
    { [StoredTask(<<"s", "1">>, NoneVal, NoDeadline, st) EXCEPT !.completed_at = at] :
         st \in {"todo", "in_progress", "done"},
         at \in {NoneVal, "yesterday", "t0", "t1", "t2"} }

\* What archive --days N is to select at the time now.
Selected(t, days, now) ==
    /\ t.status = "done"
    /\ \/ days = 0
       \/ /\ t.completed_at \in Range(Stamps)
          /\ StampVal(t.completed_at) + days < StampVal(now)

\* C30: archive selects only done tasks: all of them with days = 0; with
\* days > 0 exactly those whose completed_at is earlier than now minus
\* days, a done task with no or an unreadable completed_at being kept; a
\* todo or in_progress task is never selected; and when nothing is selected
\* neither the active store nor the archive is written.
C30_ArchiveSelection ==
    /\ [](\A t \in ArchiveSamples, days \in 0..2, now \in {"t1", "t2", "t3"} :
             ShouldArchive(t, days, now) <=> Selected(t, days, now))
    /\ [][(target'.cmd = "archive" /\ steps' = steps + 1) =>
             LET S == {i \in DOMAIN store.tasks :
                          Selected(store.tasks[i], target'.days, StampAt(steps'))}
             IN  /\ TaskIds(tasks_to_archive') = {store.tasks[i].id : i \in S}
                 /\ TaskIds(store'.tasks) = {store.tasks[i].id : i \in DOMAIN store.tasks \ S}
                 /\ \A i \in DOMAIN tasks_to_archive' :
                       tasks_to_archive'[i].status = "archived"
                 /\ S = {} => /\ store' = store /\ writes' = writes
                              /\ archive' = archive /\ tasks_to_archive' = <<>>]_vars

C30_Witness ==
    /\ target.cmd = "archive"
    /\ target.days = 1
    /\ tasks_to_archive # <<>>
    /\ \E i \in DOMAIN store.tasks : store.tasks[i].status = "done"

\* C27: every task, of the batch under review and of the store, has an
\* estimated_tomatoes of at least 1 after any sequence of review edits,
\* single edits and bulk edits, the parsed and stored estimates being at
\* least 1.
C27_EstimatePositive ==
    /\ (\A i \in DOMAIN parsed_tasks : parsed_tasks[i].estimated_tomatoes >= 1)
          => \A i \in DOMAIN new_tasks : new_tasks[i].estimated_tomatoes >= 1
    /\ \A i \in DOMAIN store.tasks : store.tasks[i].estimated_tomatoes >= 1

\* A name without its letter case and its leading and trailing blanks.
Normalised(name) == Lower(Strip(Chars(name)))

\* The batch project p is named like no stored project, and like a stored
\* one up to letter case and leading or trailing blanks.
NearDuplicate(p) ==
    /\ p.name \notin Names(existing_projects)
    /\ \E i \in DOMAIN existing_projects :
          Normalised(existing_projects[i].name) = Normalised(p.name)

\* C28 as stated: a batch project whose name differs from a stored
\* project's name only in letter case or in leading or trailing blanks is
\* itself in the final project set, and the draft tasks that pointed at it
\* still do.
C28_AsStated ==
    PostMerge =>
       \A p \in Range(new_projects) :
          NearDuplicate(p) =>
             /\ p \in Range(final_projects)
             /\ \A j \in DOMAIN new_tasks :
                   parsed_tasks[j].project_id = p.id => new_tasks[j].project_id = p.id

\* C28: names are compared by exact equality: a batch project whose name
\* differs from a stored project's name only in letter case or in leading
\* or trailing blanks is not merged into the stored project; the first
\* batch project of that very name is added to the final project set after
\* the stored projects, and the draft tasks of every batch project of that
\* name point at it.
C28_ExactNameMatch ==
    PostMerge =>
       /\ IsPrefix(existing_projects, final_projects)
       /\ \A p \in Range(new_projects) :
             NearDuplicate(p) =>
                /\ FirstOfName(p) \in Range(final_projects)
                /\ FirstOfName(p).id \notin Ids(existing_projects)
                /\ \A j \in DOMAIN new_tasks :
                      parsed_tasks[j].project_id = p.id
                         => new_tasks[j].project_id = FirstOfName(p).id

C28_Witness ==
    /\ PostMerge
    /\ Names(existing_projects) = {"Work", "Home"}
    /\ Names(new_projects) = {"work", "Work "}
    /\ Len(final_projects) = 4
    /\ \A j \in DOMAIN new_tasks : new_tasks[j].project_id \in Ids(new_projects)
    /\ Len(new_tasks) = 2

\* ------------------------------------------------- claims: the data file
\* C23: load_data never fails: it returns empty collections for a missing
\* file and for every unreadable or corrupt content, be it no JSON at all or
\* JSON of the wrong shape.
C23_LoadNeverFails ==
    [][loaded' # loaded =>
          /\ ~loaded'.raised
          /\ file.kind # "data" => loaded'.data = NoData]_vars

\* C24: a load_data made while a save_data is under way, or after one was
\* interrupted, returns either the collections the file held before that
\* save or the collections being saved, never anything else.
C24_SaveAtomic ==
    loaded.phase \in {"opened", "partial", "killed"} =>
       /\ ~loaded.raised
       /\ loaded.data \in {loaded.old, loaded.new}

\* ------------------------------------------------ claims: ingest failures
\* C25: when the parser or the initial load fails, the ingest ends at once:
\* the review session is not entered, the store is not written, then or
\* later, and ingest_logic returns False.
C25_FailedIngestWritesNothing ==
    /\ [](pc = "Failed" =>
             /\ store = store0 /\ writes = 0 /\ steps = 0
             /\ new_tasks = <<>> /\ final_projects = <<>>
             /\ IngestResult = "False")
    /\ [][(pc = "idle" /\ out' \in IngestErrors) =>
             (pc' = "Failed" /\ store' = store /\ writes' = writes)]_vars
    /\ [][pc = "Failed" => (pc' = "Failed" /\ store' = store)]_vars

C25_Witness ==
    /\ pc = "Failed"
    /\ out = "Error: load"
    /\ store.tasks # <<>>

\* C26: check_github closes issues exactly when the ingest was saved: a
\* close is then attempted for every fetched issue, a failed close not
\* stopping the others, and only after the store was written; after a
\* discarded or a failed ingest, and after a failed or an empty fetch, no
\* close is attempted.
C26_CloseIffSaved ==
    /\ []((github.closed # <<>> \/ github.failed # <<>>) =>
             /\ github.state = "done"
             /\ IngestResult = "True"
             /\ writes = 1
             /\ store = SaveData(existing_tasks \o new_tasks, final_projects))
    /\ [][(github.state = "fetched" /\ github'.state = "done") =>
             /\ store' = store
             /\ IF IngestResult = "True"
                THEN /\ Range(github'.closed) \cup Range(github'.failed)
                           = Range(github.issues)
                     /\ Range(github'.closed) \cap Range(github'.failed) = {}
                ELSE github'.closed = <<>> /\ github'.failed = <<>>]_vars
    /\ [][github.state # "fetched" => github'.closed = github.closed]_vars

C26_Witness ==
    /\ github.state = "done"
    /\ github.issues = <<1, 2>>
    /\ github.failed = <<1>>
    /\ github.closed = <<2>>

\* C31: delete writes the store only after the user confirmed, and then
\* writes it without exactly the tasks whose ids were resolved: the other
\* tasks keep their order and fields, the projects are the same; after a
\* declined confirmation, or when no reference resolves to a task of the
\* store, nothing is written.
C31_DeleteFrame ==
    [][(target'.cmd = "delete" /\ steps' = steps + 1) =>
          LET resolved == Range(target'.ids) \cap TaskIds(store.tasks)
          IN  IF target'.confirm = "yes"
              THEN /\ resolved # {}
                   /\ writes' = writes + 1
                   /\ TaskIds(store'.tasks) = TaskIds(store.tasks) \ resolved
                   /\ store'.tasks = SelectSeq(store.tasks, LAMBDA t : t.id \notin resolved)
                   /\ store'.projects = store.projects
              ELSE /\ store' = store
                   /\ writes' = writes
                   /\ target'.confirm = "none" <=> resolved = {}]_vars

C31_Witness ==
    /\ target.cmd = "delete"
    /\ target.confirm = "yes"
    /\ Len(target.ids) = 3
    /\ Len(store.tasks) = 2
    /\ store.projects # <<>>
    /\ writes = 1

C31_WitnessDeclined ==
    /\ target.cmd = "delete"
    /\ target.confirm = "no"
    /\ Len(store.tasks) = 5


\* C33: every id that parse_task_refs returns to complete, delete or edit,
\* and the id start chooses, is the id of a task in the list the command
\* loaded; an entry of the session index whose task was deleted or
\* archived after the listing is not returned.
C33_ResolvedIdsLoaded ==
    [][(/\ target'.cmd \in BulkCommands \cup {"start"}
        /\ steps' = steps + 1
        /\ ~target'.raised)
          => Range(target'.ids) \subseteq TaskIds(store.tasks)]_vars

\* Inputs with a trailing, a leading and a doubled comma.
EmptyTokenRefs ==
    { <<"1", ",">>, <<",", "1">>, <<"1", ",", ",", "2">>, <<"z", "z", ",", " ">> }

\* The tokens of an input that are not empty once stripped.
NamedTokens(task_ref_str) ==
    {tok \in Range(Split(task_ref_str, ",")) : Strip(tok) # <<>>}

\* C34: for an input with an empty token parse_task_refs returns exactly
\* the ids its non-empty tokens select; the empty token adds no task.
C34_EmptyTokenSelectsNothing ==
    \A task_ref_str \in EmptyTokenRefs :
        TokenIds(task_ref_str, TASK_INDEX_MAP, store.tasks)
            = UNION {TokenIds(tok, TASK_INDEX_MAP, store.tasks) :
                        tok \in NamedTokens(task_ref_str)}


\* C37: a review Edit in which the project label shown for the draft task
\* is entered again (typed, or accepted with Enter) keeps the task's
\* project_id, asks for no confirmation and creates no project, also for
\* a draft task shown as "Unknown"; the single-task edit command does the
\* same on the same task, projects and entry.
C37_SameLabelKeepsProject ==
    [][(/\ pc = "Reviewing"
        /\ Dispatch(typed'.choice) = "edit"
        /\ ~InvalidEditTyped
        /\ PromptAsk(typed'.project, EditedLabel) = EditedLabel) =>
          LET k == TypedEditNumber.val
              one == EditSingle(new_tasks[k], final_projects,
                                [title |-> "", tomatoes |-> <<>>, deadline |-> "",
                                 project |-> typed'.project, confirm |-> TRUE])
          IN  /\ new_tasks'[k].project_id = new_tasks[k].project_id
              /\ final_projects' = final_projects
              /\ ~ConfirmAsked(new_tasks, final_projects, typed'.choice, typed'.project)
              /\ one.task.project_id = new_tasks[k].project_id
              /\ one.projects = final_projects]_vars


\* C32: from an empty store, after any sequence of ingest (saved or
\* discarded), edit, bulk edit, start, complete, delete and archive, every
\* task of the active store has a project_id that is None or the id of a
\* project of the active store.
C32_ReferentialIntegrity ==
    \A i \in DOMAIN store.tasks :
        \/ store.tasks[i].project_id = NoneVal
        \/ store.tasks[i].project_id \in Ids(store.projects)

\* A project created by the edit command is on a task of the store after
\* the ingest was saved and a third command has written the store.
C32_Witness ==
    /\ pc = "Saved"
    /\ writes = 3
    /\ \E i \in DOMAIN store.tasks :
          /\ store.tasks[i].project_id \in Range(CreatedProjectIds)
          /\ store.tasks[i].project_id \notin Ids(final_projects)
    /\ \E i \in DOMAIN store.tasks : store.tasks[i].project_id \in Range(BatchProjectIds)


\* C36: from an empty store and an empty archive, in every state reached by
\* ingest, start, complete, edit, delete and archive, no task of the active
\* store has the status archived, every task of the archive has it, no id
\* is in both collections, and no step takes a task out of the archive.
C36_ArchiveSeparation ==
    /\ [](/\ \A i \in DOMAIN store.tasks : store.tasks[i].status # "archived"
          /\ \A i \in DOMAIN archive : archive[i].status = "archived"
          /\ TaskIds(store.tasks) \cap TaskIds(archive) = {})
    /\ [][IsPrefix(archive, archive')]_vars

\* start on the task that stayed in the store after the other was archived.
C36_Witness ==
    /\ pc = "Saved"
    /\ Len(archive) = 1
    /\ Len(store.tasks) = 1
    /\ target.cmd = "start"
    /\ target.timer = "finished"
    /\ store.tasks[1].status = "in_progress"


\* projects grew by one project, whose name no project had before.
AddsOneNewName(before, after) ==
    /\ Len(after) = Len(before) + 1
    /\ IsPrefix(before, after)
    /\ after[Len(after)].name \notin Names(before)

\* C35: the edit command, on one task and in bulk, and the review Edit add
\* a project only under a name that no project of their list has, and only
\* after the user confirmed; the project names of the store and of the
\* working set stay pairwise distinct.
C35_EditKeepsNamesDistinct ==
    /\ [](/\ DistinctNames(store.projects)
          /\ pc = "Reviewing" => DistinctNames(final_projects)
          /\ \A e \in EditCmdEntries :
                ~e.confirm =>
                   /\ EditBulk(store.tasks, store.projects, TaskIds(store.tasks), e).projects
                         = store.projects
                   /\ \A i \in DOMAIN store.tasks :
                         EditSingle(store.tasks[i], store.projects, e).projects
                            = store.projects)
    /\ [][(target'.cmd = "edit" /\ steps' = steps + 1 /\ store'.projects # store.projects)
             => AddsOneNewName(store.projects, store'.projects)]_vars
    /\ [][(pc = "Reviewing" /\ Dispatch(typed'.choice) = "edit"
              /\ final_projects' # final_projects)
             => /\ AddsOneNewName(final_projects, final_projects')
                /\ typed'.confirm]_vars

\* The review Edit has created the project New, and the edit command,
\* given the name New again, has assigned that project and created none.
C35_Witness ==
    /\ pc = "Saved"
    /\ target.cmd = "edit"
    /\ out = "Task updated!"
    /\ Names(store.projects) = {"Work", "Docs", "New"}
    /\ Len(store.projects) = 3
    /\ Project("p_1", "New") \in Range(final_projects)
    /\ Len(store.tasks) = 2
    /\ \A i \in DOMAIN store.tasks : store.tasks[i].project_id = "p_1"

====
